---- MODULE Spec2Model ----
(***************************************************************************)
(* ScheduleStyler: the adaptive grid layout solver of CalendarCanvas and   *)
(* the layered capture-and-composite export pipeline (exportPipeline.ts).  *)
(*                                                                         *)
(* Arithmetic.  The source computes in IEEE doubles.  Here the slider is    *)
(* k/SliderSteps, the target ratio and the content estimates are exact     *)
(* fractions, and every length handed to or computed by the solver is      *)
(* fixed point in units of 1/Scale pixel, rounded down.                    *)
(***************************************************************************)
EXTENDS Integers, Sequences, FiniteSets, TLC

VARIABLES
    \* --- CalendarCanvas layout (part_003) ---
    numDays,                  \* visibleDays.length
    hourRange,                \* hourRange of the visible window
    contentBasedHourHeight,   \* hourHeight, fixed point
    minBlockWidth,            \* minBlockWidth, fixed point
    aspectRatioSlider,        \* template.aspectRatio = aspectRatioSlider / SliderSteps
    canvasDimensions,         \* memoised result of calculateCanvasDimensions
    \* --- blur parsing and collection (exportPipeline.ts lines 116-180) ---
    filterValue,              \* a backdrop-filter string, as a sequence of characters
    parsedBlur,               \* result of parseBlurPx(filterValue), or NotParsed
    surface,                  \* the live surface: its rect and its descendants
    collected,                \* result of collectBlurRegions(surface), or NotCollected
    \* --- export pipeline (exportPipeline.ts) and its caller (ExportStep.tsx) ---
    fontCSSCache,             \* module variable: "null", "" (fetch failed) or "css"
    stagingRoot,              \* module variable stagingRoot is non-null
    bodyStagingRoots,         \* number of staging divs appended to document.body
    stagingChildren,          \* clones attached to the staging div: <<export, layer>>
    hasFontsApi,              \* document.fonts?.ready is defined in this browser
    liveNode,                 \* the element captured: where it is attached, its children
    isExporting,              \* React state of ExportStep
    buttonDisabled,           \* the rendered disabled attribute of the Download button
    pc,                       \* per export: the await at which it is suspended
    frame,                    \* per export: the locals of downloadCalendarExport
    \* --- compositor (exportPipeline.ts lines 340-380) applied to given rasters ---
    compInput,                \* base raster, foreground raster, blur regions, surface width
    compOutput,               \* the output canvas after line 380, or NotComposited
    \* --- ExportStep state and its two CalendarCanvas instances ---
    events,                   \* the entries, in list order
    template,                 \* the TemplateConfig
    canvases                  \* per instance ("visible", "hidden"): its useMemo cells

layoutVars == <<numDays, hourRange, contentBasedHourHeight, minBlockWidth,
                aspectRatioSlider, canvasDimensions>>

blurVars == <<filterValue, parsedBlur, surface, collected>>

exportVars == <<fontCSSCache, stagingRoot, bodyStagingRoots, stagingChildren, hasFontsApi,
                liveNode, isExporting, buttonDisabled, pc, frame>>

compositeVars == <<compInput, compOutput>>

contentVars == <<events, template, canvases>>

vars == <<layoutVars, blurVars, exportVars, compositeVars, contentVars>>

----------------------------------------------------------------------------
(* Bounds of the model *)

Scale        == 100   \* fixed-point unit: 1/Scale px
SliderSteps  == 8     \* slider values k/SliderSteps, k \in 0..SliderSteps
MaxDays      == 3     \* numDays \in 1..MaxDays
MaxHourRange == 4     \* hourRange \in 1..MaxHourRange
MaxHeightIdx == 2     \* hour heights baseHourHeight + 70*j, j \in 0..MaxHeightIdx
MaxWidthIdx  == 3     \* block widths ABSOLUTE_MIN_BLOCK_WIDTH + 30*j, j \in 0..MaxWidthIdx
MaxBodyLen   == 3     \* characters between 'blur(' and the unit
MaxNodes     == 2     \* descendants of the surface
MaxExports   == 2     \* clicks on Download
MaxImages    == 1     \* img elements of a clone whose load is not yet complete
MaxRegions   == 2     \* blur regions handed to the compositor
MaxEvents    == 2     \* entries in the event list

----------------------------------------------------------------------------
(* Dimension constants, part_003 lines 672-685 and 968 *)

ABSOLUTE_MIN_BLOCK_WIDTH == 60
HEADER_HEIGHT     == 40
FOOTER_HEIGHT     == 40
GRID_PADDING      == 64
TIME_COLUMN_WIDTH == 48
baseHourHeight    == 60

LANDSCAPE_RATIO == [num |-> 16, den |-> 9]
PORTRAIT_RATIO  == [num |-> 9, den |-> 16]

----------------------------------------------------------------------------
(* Exact fractions (for the target ratio) and fixed-point helpers *)

Abs(x) == IF x < 0 THEN -x ELSE x
Max(a, b) == IF a >= b THEN a ELSE b
Min(a, b) == IF a <= b THEN a ELSE b

RECURSIVE GCD(_, _)
GCD(a, b) == IF b = 0 THEN a ELSE GCD(b, a % b)

\* a fraction in lowest terms with a positive denominator
Rat(n, d) ==
    LET g == GCD(Abs(n), Abs(d))
        s == IF d < 0 THEN -1 ELSE 1
    IN  [num |-> s * (n \div g), den |-> s * (d \div g)]

RatAdd(p, q) == Rat(p.num * q.den + q.num * p.den, p.den * q.den)
RatSub(p, q) == Rat(p.num * q.den - q.num * p.den, p.den * q.den)
RatMul(p, q) == Rat(p.num * q.num, p.den * q.den)

\* x * r and x / r for a fixed-point x and a positive fraction r, rounded down
MulRat(x, r) == (x * r.num) \div r.den
DivRat(x, r) == (x * r.den) \div r.num

\* Math.sqrt on fixed point: floor(sqrt(x * Scale)) is sqrt(x/Scale) in 1/Scale units
RECURSIVE SqrtSearch(_, _, _)
SqrtSearch(x, lo, hi) ==
    IF lo >= hi THEN lo
    ELSE LET mid == (lo + hi + 1) \div 2
         IN  IF mid * mid <= x THEN SqrtSearch(x, mid, hi)
                               ELSE SqrtSearch(x, lo, mid - 1)

SqrtFx(x) == SqrtSearch(x * Scale, 0, Max(x, Scale))

----------------------------------------------------------------------------
(* calculateCanvasDimensions, part_003 lines 756-834 *)

\* line 780: interpolate between 16:9 and 9:16
TargetRatio(slider) ==
    RatAdd(LANDSCAPE_RATIO,
           RatMul(RatSub(PORTRAIT_RATIO, LANDSCAPE_RATIO), Rat(slider, SliderSteps)))

\* lines 764-777; blockWidth and hourHeight are fixed point
MinGridWidth(nDays, blockWidth)     == nDays * blockWidth
MinGridHeight(hRange, hourHeight)   == hRange * hourHeight
NaturalGridWidth(nDays, blockWidth) ==
    Max(MinGridWidth(nDays, blockWidth), nDays * 120 * Scale)
MinCanvasWidth(nDays, blockWidth)   ==
    MinGridWidth(nDays, blockWidth) + (TIME_COLUMN_WIDTH + GRID_PADDING) * Scale
MinCanvasHeight(hRange, hourHeight) ==
    MinGridHeight(hRange, hourHeight) + (HEADER_HEIGHT + FOOTER_HEIGHT + GRID_PADDING) * Scale
NaturalCanvasWidth(nDays, blockWidth) ==
    NaturalGridWidth(nDays, blockWidth) + (TIME_COLUMN_WIDTH + GRID_PADDING) * Scale
NaturalCanvasHeight(hRange, hourHeight) ==
    MinGridHeight(hRange, hourHeight) + (HEADER_HEIGHT + FOOTER_HEIGHT + GRID_PADDING) * Scale

\* lines 789-791 with the multiplication turned into a division
ExpandWidthDivide(naturalCanvasHeight, targetRatio) ==
    [width  |-> DivRat(naturalCanvasHeight, targetRatio),
     height |-> naturalCanvasHeight]

\* lines 789-791: target wider than natural, expand width
ExpandWidth(naturalCanvasHeight, targetRatio) ==
    [width  |-> MulRat(naturalCanvasHeight, targetRatio),
     height |-> naturalCanvasHeight]

\* the shrink branch with line 810 left out: width stays at the first targetWidth
ShrinkWidthNoRederive(naturalCanvasWidth, naturalCanvasHeight, minGridHeight, minCanvasWidth, targetRatio) ==
    LET targetWidth == MulRat(naturalCanvasHeight, targetRatio)
        widthCompressionRatio == (naturalCanvasWidth * Scale) \div targetWidth
        extraHeightFactor == SqrtFx(widthCompressionRatio) - Scale
        extraHeight == (minGridHeight * extraHeightFactor * 3) \div (10 * Scale)
    IN  IF widthCompressionRatio > Scale
        THEN [width |-> targetWidth, height |-> naturalCanvasHeight + extraHeight]
        ELSE [width |-> targetWidth, height |-> naturalCanvasHeight]

\* lines 796-816: the ratio is reachable by shrinking width; height is inflated
\* by 0.3 * minGridHeight * (sqrt(compression) - 1) and width re-derived from it
ShrinkWidth(naturalCanvasWidth, naturalCanvasHeight, minGridHeight, minCanvasWidth, targetRatio) ==
    LET targetWidth == MulRat(naturalCanvasHeight, targetRatio)
        widthCompressionRatio == (naturalCanvasWidth * Scale) \div targetWidth
        extraHeightFactor == SqrtFx(widthCompressionRatio) - Scale
        extraHeight == (minGridHeight * extraHeightFactor * 3) \div (10 * Scale)
        inflatedHeight == naturalCanvasHeight + extraHeight
        rederivedWidth == MulRat(inflatedHeight, targetRatio)
    IN  IF widthCompressionRatio > Scale
        THEN IF rederivedWidth < minCanvasWidth
             THEN [width  |-> minCanvasWidth,
                   height |-> DivRat(minCanvasWidth, targetRatio)]
             ELSE [width |-> rederivedWidth, height |-> inflatedHeight]
        ELSE [width |-> targetWidth, height |-> naturalCanvasHeight]

\* the floor branch with the division turned into a multiplication
HoldWidthTimesRatio(minCanvasWidth, targetRatio) ==
    [width  |-> minCanvasWidth,
     height |-> MulRat(minCanvasWidth, targetRatio)]

\* lines 817-821: cannot shrink enough, hold width at the floor and expand height
HoldWidth(minCanvasWidth, targetRatio) ==
    [width  |-> minCanvasWidth,
     height |-> DivRat(minCanvasWidth, targetRatio)]

\* lines 789-822 without the test of line 796: the width is always shrunk
SolverBranchNoHold(nDays, hRange, hourHeight, slider, blockWidth) ==
    LET natW == NaturalCanvasWidth(nDays, blockWidth)
        natH == NaturalCanvasHeight(hRange, hourHeight)
        t    == TargetRatio(slider)
    IN  IF t.num * natH > natW * t.den THEN "expand"
        ELSE IF t.num * natH < natW * t.den THEN "shrink"
             ELSE "natural"

\* which branch of lines 789-822 the inputs take
SolverBranch(nDays, hRange, hourHeight, slider, blockWidth) ==
    LET natW == NaturalCanvasWidth(nDays, blockWidth)
        natH == NaturalCanvasHeight(hRange, hourHeight)
        t    == TargetRatio(slider)
    IN  IF t.num * natH > natW * t.den THEN "expand"
        ELSE IF t.num * natH < natW * t.den
             THEN IF MulRat(natH, t) >= MinCanvasWidth(nDays, blockWidth)
                  THEN "shrink" ELSE "hold"
             ELSE "natural"

\* lines 756-834 without lines 788-822: the natural size is returned
calculateCanvasDimensionsNatural(nDays, hRange, hourHeight, slider, blockWidth) ==
    [width      |-> NaturalCanvasWidth(nDays, blockWidth),
     height     |-> NaturalCanvasHeight(hRange, hourHeight),
     gridWidth  |-> NaturalGridWidth(nDays, blockWidth),
     gridHeight |-> MinGridHeight(hRange, hourHeight)]

calculateCanvasDimensions(nDays, hRange, hourHeight, slider, blockWidth) ==
    LET natW   == NaturalCanvasWidth(nDays, blockWidth)
        natH   == NaturalCanvasHeight(hRange, hourHeight)
        minW   == MinCanvasWidth(nDays, blockWidth)
        t      == TargetRatio(slider)
        branch == SolverBranch(nDays, hRange, hourHeight, slider, blockWidth)
        final  == CASE branch = "expand" -> ExpandWidth(natH, t)
                    [] branch = "shrink" ->
                         ShrinkWidth(natW, natH, MinGridHeight(hRange, hourHeight), minW, t)
                    [] branch = "hold"   -> HoldWidth(minW, t)
                    [] OTHER -> [width |-> natW, height |-> natH]
    IN  [width      |-> final.width,
         height     |-> final.height,
         gridWidth  |-> final.width - (TIME_COLUMN_WIDTH + GRID_PADDING) * Scale,
         gridHeight |-> final.height - (HEADER_HEIGHT + FOOTER_HEIGHT + GRID_PADDING) * Scale]

----------------------------------------------------------------------------
(* Strings are sequences of one-character strings.  Numbers read out of a   *)
(* string are exact decimals num/den; NaN is a value of its own.            *)

Digits == <<"0", "1", "2", "3", "4", "5", "6", "7", "8", "9">>
IsDigit(c) == \E d \in 1..10 : Digits[d] = c
DigitVal(c) == (CHOOSE d \in 1..10 : Digits[d] = c) - 1

NaN == [kind |-> "NaN", num |-> 0, den |-> 1]
Num(n, d) == [kind |-> "num", num |-> n, den |-> d]
IsFinite(x) == x.kind = "num"

\* length of the longest run of characters satisfying a digit test from position i
RECURSIVE DigitRun(_, _)
DigitRun(s, i) ==
    IF i <= Len(s) /\ IsDigit(s[i]) THEN 1 + DigitRun(s, i + 1) ELSE 0

RECURSIVE DigitsValue(_, _, _)
DigitsValue(s, i, n) ==
    IF n = 0 THEN 0 ELSE DigitsValue(s, i, n - 1) * 10 + DigitVal(s[i + n - 1])

RECURSIVE Pow10(_)
Pow10(n) == IF n = 0 THEN 1 ELSE 10 * Pow10(n - 1)

RECURSIVE SpaceRun(_, _)
SpaceRun(s, i) == IF i <= Len(s) /\ s[i] = " " THEN 1 + SpaceRun(s, i + 1) ELSE 0

\* the built-in parseFloat: leading blanks, an optional sign, then the longest
\* prefix digits[.digits] with at least one digit; anything after it is ignored
\* (exponents and the literal Infinity do not occur in the strings modelled)
parseFloat(s) ==
    LET start    == 1 + SpaceRun(s, 1)
        hasSign  == start <= Len(s) /\ s[start] \in {"-", "+"}
        sign     == IF hasSign /\ s[start] = "-" THEN -1 ELSE 1
        intAt    == IF hasSign THEN start + 1 ELSE start
        intLen   == DigitRun(s, intAt)
        dotAt    == intAt + intLen
        hasDot   == dotAt <= Len(s) /\ s[dotAt] = "."
        fracLen  == IF hasDot THEN DigitRun(s, dotAt + 1) ELSE 0
    IN  IF intLen + fracLen = 0 THEN NaN
        ELSE Num(sign * (DigitsValue(s, intAt, intLen) * Pow10(fracLen)
                         + DigitsValue(s, dotAt + 1, fracLen)),
                 Pow10(fracLen))

----------------------------------------------------------------------------
(* parseBlurPx, exportPipeline.ts lines 116-122 *)

Zero == Num(0, 1)

StartsWithAt(s, i, lit) ==
    /\ i + Len(lit) - 1 <= Len(s)
    /\ \A k \in 1..Len(lit) : s[i + k - 1] = lit[k]

\* [\d.]+ : the longest run of digits and dots from position i
RECURSIVE NumberCharRun(_, _)
NumberCharRun(s, i) ==
    IF i <= Len(s) /\ (IsDigit(s[i]) \/ s[i] = ".")
    THEN 1 + NumberCharRun(s, i + 1) ELSE 0

BlurOpen  == <<"b", "l", "u", "r", "(">>
BlurClose == <<"p", "x", ")">>

\* /blur\(([\d.]+)px\)/ matches at position i.  The group is greedy, and a
\* shorter group would need 'p' where a digit or dot stands, so only the
\* longest run can be followed by 'px)'.
BlurMatchAt(s, i) ==
    /\ StartsWithAt(s, i, BlurOpen)
    /\ NumberCharRun(s, i + 5) >= 1
    /\ StartsWithAt(s, i + 5 + NumberCharRun(s, i + 5), BlurClose)

\* RegExp.exec: the leftmost match, or none; the result is capture group 1
BlurRegexExec(s) ==
    IF \E i \in 1..Len(s) : BlurMatchAt(s, i)
    THEN LET i == CHOOSE j \in 1..Len(s) :
                      BlurMatchAt(s, j) /\ \A k \in 1..(j - 1) : ~BlurMatchAt(s, k)
         IN  [matched |-> TRUE, group |-> SubSeq(s, i + 5, i + 4 + NumberCharRun(s, i + 5))]
    ELSE [matched |-> FALSE, group |-> <<>>]

NoneLiteral == <<"n", "o", "n", "e">>

\* line 121 without the Number.isFinite test
parseBlurPxUnchecked(filter) ==
    IF filter = <<>> \/ filter = NoneLiteral THEN Zero
    ELSE LET match == BlurRegexExec(filter)
         IN  IF ~match.matched THEN Zero ELSE parseFloat(match.group)

parseBlurPx(filter) ==
    IF filter = <<>> \/ filter = NoneLiteral THEN Zero
    ELSE LET match == BlurRegexExec(filter)
         IN  IF ~match.matched THEN Zero
             ELSE LET value == parseFloat(match.group)
                  IN  IF IsFinite(value) THEN value ELSE Zero

\* parseRadius, lines 124-127
parseRadius(value) ==
    LET parsed == parseFloat(value) IN IF IsFinite(parsed) THEN parsed ELSE Zero

----------------------------------------------------------------------------
(* collectBlurRegions, exportPipeline.ts lines 129-180.  A surface is the   *)
(* root's bounding rect and the list root.querySelectorAll('*') returns;    *)
(* an element carries its data-component, its computed style and its rect.  *)

skipComponents == {"CalendarCard", "BackgroundContainer"}

\* JavaScript's x <= 0 and x === 0 on a number that may be NaN
LeqZero(x) == x.kind = "num" /\ x.num <= 0
EqZero(x)  == x.kind = "num" /\ x.num = 0

\* line 143 without the fallback to the prefixed property
EffectiveBackdropNoWebkit(style) == style.backdropFilter

\* line 143: backdropFilter || webkitBackdropFilter || ''
EffectiveBackdrop(style) ==
    IF style.backdropFilter # <<>> THEN style.backdropFilter
    ELSE style.webkitBackdropFilter

\* lines 136-176 with the clamping of lines 155-158 left out
RegionOfUnclamped(el, rootRect) ==
    LET blurPx == parseBlurPx(EffectiveBackdrop(el.style))
        left   == el.rect.left - rootRect.left
        top    == el.rect.top - rootRect.top
        skip ==
            \/ el.component \in skipComponents
            \/ el.style.display = "none" \/ el.style.visibility = "hidden"
            \/ EqZero(parseFloat(el.style.opacity))
            \/ LeqZero(blurPx)
            \/ el.rect.width <= 0 \/ el.rect.height <= 0
    IN  [skip   |-> skip,
         region |-> [x |-> left, y |-> top,
                     width |-> el.rect.width, height |-> el.rect.height,
                     blurPx |-> blurPx,
                     radius |-> [tl |-> parseRadius(el.style.borderTopLeftRadius),
                                 tr |-> parseRadius(el.style.borderTopRightRadius),
                                 br |-> parseRadius(el.style.borderBottomRightRadius),
                                 bl |-> parseRadius(el.style.borderBottomLeftRadius)]]]

\* lines 136-176 for one element: the region it contributes, if any
RegionOf(el, rootRect) ==
    LET blurPx == parseBlurPx(EffectiveBackdrop(el.style))
        left   == el.rect.left - rootRect.left
        top    == el.rect.top - rootRect.top
        right  == left + el.rect.width
        bottom == top + el.rect.height
        clampedLeft   == Max(0, left)
        clampedTop    == Max(0, top)
        clampedRight  == Min(rootRect.width, right)
        clampedBottom == Min(rootRect.height, bottom)
        width  == clampedRight - clampedLeft
        height == clampedBottom - clampedTop
        skip ==
            \/ el.component \in skipComponents
            \/ el.style.display = "none" \/ el.style.visibility = "hidden"
            \/ EqZero(parseFloat(el.style.opacity))
            \/ LeqZero(blurPx)
            \/ el.rect.width <= 0 \/ el.rect.height <= 0
            \/ width <= 0 \/ height <= 0
    IN  [skip   |-> skip,
         region |-> [x |-> clampedLeft, y |-> clampedTop,
                     width |-> width, height |-> height,
                     blurPx |-> blurPx,
                     radius |-> [tl |-> parseRadius(el.style.borderTopLeftRadius),
                                 tr |-> parseRadius(el.style.borderTopRightRadius),
                                 br |-> parseRadius(el.style.borderBottomRightRadius),
                                 bl |-> parseRadius(el.style.borderBottomLeftRadius)]]]

RECURSIVE CollectNodes(_, _)
CollectNodes(nodes, rootRect) ==
    IF nodes = <<>> THEN <<>>
    ELSE LET r == RegionOf(Head(nodes), rootRect)
         IN  (IF r.skip THEN <<>> ELSE <<r.region>>) \o CollectNodes(Tail(nodes), rootRect)

\* lines 134-135 iterating over the root as well as its descendants
collectBlurRegionsWithRoot(root) == CollectNodes(<<root.self>> \o root.nodes, root.rect)

\* root.nodes is root.querySelectorAll('*'): the descendants in document
\* order, without the root itself (root.self)
collectBlurRegions(root) == CollectNodes(root.nodes, root.rect)

----------------------------------------------------------------------------
(* Inputs of the blur functions *)

BodyChars == {"0", "4", ".", "-", "e"}
Bodies == UNION {[1..n -> BodyChars] : n \in 0..MaxBodyLen}
Units == {<<"p", "x">>, <<"e", "m">>, <<>>}
Closers == {<<")">>, <<>>}
Prefixes == {<<>>, <<"b", "l", "u", "r", "(", "2", "e", "m", ")", " ">>}

\* backdrop-filter strings: empty, 'none', text without the pattern, and
\* [prefix] blur( body unit [)] for every short body over BodyChars
FilterStrings ==
    {<<>>, NoneLiteral, <<"n", "o", "n", "e", " ">>, <<"x", "y", "z">>}
    \cup {pre \o BlurOpen \o body \o unit \o close :
            pre \in Prefixes, body \in Bodies, unit \in Units, close \in Closers}

Blur12   == <<"b", "l", "u", "r", "(", "1", "2", "p", "x", ")">>
Blur4    == <<"b", "l", "u", "r", "(", "4", "p", "x", ")">>
Blur0    == <<"b", "l", "u", "r", "(", "0", "p", "x", ")">>
BlurDot  == <<"b", "l", "u", "r", "(", ".", "p", "x", ")">>
Blur2em  == <<"b", "l", "u", "r", "(", "2", "e", "m", ")">>

SurfaceFilters == {<<>>, NoneLiteral, Blur12, Blur4, Blur0, BlurDot, Blur2em}

Px(n) == IF n = 0 THEN <<"0", "p", "x">> ELSE <<"8", "p", "x">>

RootRect == [left |-> 10, top |-> 20, width |-> 100, height |-> 80]

Element(component, display, visibility, opacity, backdrop, webkit, rect) ==
    [component |-> component,
     style |-> [display |-> display, visibility |-> visibility, opacity |-> opacity,
                backdropFilter |-> backdrop, webkitBackdropFilter |-> webkit,
                borderTopLeftRadius |-> Px(1), borderTopRightRadius |-> Px(0),
                borderBottomRightRadius |-> Px(1), borderBottomLeftRadius |-> Px(0)],
     rect |-> rect]

InsideRect == [left |-> 20, top |-> 30, width |-> 40, height |-> 30]

PxOf(d) == <<Digits[d + 1], "p", "x">>

WithRadii(el, tl, tr, br, bl) ==
    [el EXCEPT !.style.borderTopLeftRadius = PxOf(tl),
               !.style.borderTopRightRadius = PxOf(tr),
               !.style.borderBottomRightRadius = PxOf(br),
               !.style.borderBottomLeftRadius = PxOf(bl)]

\* rects relative to RootRect: over the top-left corner, over the bottom-right
\* corner, left of the surface touching its edge, far outside, of zero width
TopLeftRect     == [left |-> 0, top |-> 10, width |-> 40, height |-> 30]
BottomRightRect == [left |-> 90, top |-> 80, width |-> 40, height |-> 30]
TouchingRect    == [left |-> -30, top |-> 30, width |-> 40, height |-> 30]
OutsideRect     == [left |-> 200, top |-> 30, width |-> 40, height |-> 30]
ZeroWidthRect   == [left |-> 20, top |-> 30, width |-> 0, height |-> 30]

\* blurred elements that are hidden, structural, declared by the prefixed
\* property only, out of the surface in part or in whole, or unevenly rounded
SpecialElements ==
    {Element("EventBlock", "block", "hidden", <<"1">>, Blur12, <<>>, InsideRect),
     Element("EventBlock", "none", "visible", <<"1">>, Blur12, <<>>, InsideRect),
     Element("EventBlock", "block", "visible", <<"0">>, Blur12, <<>>, InsideRect),
     Element("CalendarCard", "block", "visible", <<"1">>, Blur12, <<>>, InsideRect),
     Element("EventBlock", "block", "visible", <<"1">>, <<>>, Blur4, InsideRect),
     Element("EventBlock", "block", "visible", <<"1">>, Blur12, <<>>, TopLeftRect),
     Element("EventBlock", "block", "visible", <<"1">>, Blur12, <<>>, BottomRightRect),
     Element("EventBlock", "block", "visible", <<"1">>, Blur12, <<>>, TouchingRect),
     Element("EventBlock", "block", "visible", <<"1">>, Blur12, <<>>, OutsideRect),
     Element("EventBlock", "block", "visible", <<"1">>, Blur12, <<>>, ZeroWidthRect),
     WithRadii(Element("EventBlock", "block", "visible", <<"1">>, Blur4, <<>>, InsideRect),
               1, 2, 3, 4)}

\* elements of the surface: one per backdrop string, inside the surface and
\* visible, and the special ones
ElementChoices ==
    {Element("EventBlock", "block", "visible", <<"1">>, f, <<>>, InsideRect) :
        f \in SurfaceFilters}
    \cup SpecialElements

\* the surface root itself, with the backdrop filter given
RootElement(backdrop) ==
    Element("ExportNode", "block", "visible", <<"1">>, backdrop, <<>>, RootRect)

\* surfaces whose root has a backdrop blur of its own
Surfaces ==
    {[rect |-> RootRect, self |-> RootElement(Blur12), nodes |-> nodes] :
        nodes \in UNION {[1..n -> ElementChoices] : n \in 0..MaxNodes}}

EmptySurface == [rect |-> RootRect, self |-> RootElement(Blur12), nodes |-> <<>>]

NotParsed == [kind |-> "none", num |-> 0, den |-> 1]
NotCollected == [done |-> FALSE, regions |-> <<>>]


----------------------------------------------------------------------------
(* The compositor, exportPipeline.ts lines 292-307 and 340-380.  A raster   *)
(* is its kind, size and whether it is fully transparent.  The 2D context   *)
(* of the output canvas is its call log, its current clip (the set of paths *)
(* clipped to; empty means unclipped), its save stack, and its content: the *)
(* draws that changed pixels, each with the clip it was drawn under.        *)

DEFAULT_PIXEL_RATIO == 3

Raster(kind, id, width, height, transparent, blurPx) ==
    [kind |-> kind, id |-> id, width |-> width, height |-> height,
     transparent |-> transparent, blurPx |-> blurPx]

NoPath == [region |-> 0, x |-> 0, y |-> 0, width |-> 0, height |-> 0, den |-> 1,
           radius |-> [tl |-> Zero, tr |-> Zero, br |-> Zero, bl |-> Zero]]

\* lines 342-345 with the canvas sized after the surface, not after the raster
OutputCanvasOfRect(baseImage, rootWidth) ==
    [width |-> rootWidth, height |-> rootWidth,
     ops |-> <<>>, clip |-> {}, stack |-> <<>>, content |-> <<>>]

\* lines 342-345: the output canvas and its fresh context
OutputCanvas(baseImage, rootWidth) ==
    [width |-> baseImage.width, height |-> baseImage.height,
     ops |-> <<>>, clip |-> {}, stack |-> <<>>, content |-> <<>>]

Call(op, image, path, clip) ==
    [op |-> op, kind |-> image.kind, id |-> image.id, region |-> path.region, clip |-> clip]

NoImage == Raster("", 0, 0, 0, TRUE, Zero)

CtxSave(c) ==
    [c EXCEPT !.ops = Append(@, Call("save", NoImage, NoPath, c.clip)),
              !.stack = Append(@, c.clip)]

\* addRoundedRectPath (lines 264-290) followed by ctx.clip(): the clip
\* becomes its intersection with the path
CtxClip(c, path) ==
    [c EXCEPT !.ops = Append(@, Call("clip", NoImage, path, c.clip \cup {path})),
              !.clip = @ \cup {path}]

\* ctx.restore() that does not pop the saved clip
CtxRestoreKeepClip(c) ==
    [c EXCEPT !.ops = Append(@, Call("restore", NoImage, NoPath, c.clip))]

\* ctx.restore(): back to the clip saved last; nothing to do on an empty stack
CtxRestore(c) ==
    IF c.stack = <<>> THEN [c EXCEPT !.ops = Append(@, Call("restore", NoImage, NoPath, c.clip))]
    ELSE LET saved == c.stack[Len(c.stack)]
         IN  [c EXCEPT !.ops = Append(@, Call("restore", NoImage, NoPath, saved)),
                       !.clip = saved,
                       !.stack = SubSeq(@, 1, Len(@) - 1)]

\* ctx.drawImage(image, 0, 0, canvas.width, canvas.height): source-over, so a
\* fully transparent image leaves the pixels as they are
CtxDrawImage(c, image) ==
    [c EXCEPT !.ops = Append(@, Call("drawImage", image, NoPath, c.clip)),
              !.content = IF image.transparent THEN @
                          ELSE Append(@, [kind |-> image.kind, id |-> image.id,
                                          blurPx |-> image.blurPx, clip |-> c.clip])]

\* line 341
RasterScale(baseImage, rootWidth) == [num |-> baseImage.width, den |-> Max(1, rootWidth)]

\* line 353: region.blurPx * scale, as a fraction
ScaledBlur(region, scale) ==
    Num(region.blurPx.num * scale.num, region.blurPx.den * scale.den)

\* line 354: Math.round(blurPx * 100) / 100, held in hundredths (round half up)
CacheKey(blurPx) == (2 * blurPx.num * 100 + blurPx.den) \div (2 * blurPx.den)

\* blurCache.get that never finds an entry
CacheGetMiss(blurCache, cacheKey) == {}

\* line 355: blurCache.get(cacheKey), as the set of entries found (none or one)
CacheGet(blurCache, cacheKey) == {entry \in blurCache : entry.key = cacheKey}

\* getBlurredCanvas, lines 292-307: the whole base raster blurred by blurPx
\* (the scratch canvas yields a 2D context where the output canvas did)
getBlurredCanvas(baseImage, width, height, blurPx, id) ==
    Raster("blurred", id, width, height, baseImage.transparent, blurPx)

\* lines 361-370: the region scaled into raster pixels, over the denominator of scale
ScaledPath(region, k, scale) ==
    [region |-> k, x |-> region.x * scale.num, y |-> region.y * scale.num,
     width |-> region.width * scale.num, height |-> region.height * scale.num,
     den |-> scale.den,
     radius |-> [tl |-> Num(region.radius.tl.num * scale.num, region.radius.tl.den * scale.den),
                 tr |-> Num(region.radius.tr.num * scale.num, region.radius.tr.den * scale.den),
                 br |-> Num(region.radius.br.num * scale.num, region.radius.br.den * scale.den),
                 bl |-> Num(region.radius.bl.num * scale.num, region.radius.bl.den * scale.den)]]

\* lines 353-376 for region k; cs holds the context, the cache and the scratch
\* canvases made so far by getBlurredCanvas, in call order
DrawRegion(cs, baseImage, region, k, scale) ==
    LET blurPx   == ScaledBlur(region, scale)
        cacheKey == CacheKey(blurPx)
        found    == CacheGet(cs.blurCache, cacheKey)
        made     == getBlurredCanvas(baseImage, cs.ctx.width, cs.ctx.height, blurPx,
                                     Len(cs.scratch) + 1)
        blurCanvas == IF found = {} THEN made ELSE (CHOOSE entry \in found : TRUE).canvas
        c1 == CtxSave(cs.ctx)
        c2 == CtxClip(c1, ScaledPath(region, k, scale))
        c3 == CtxDrawImage(c2, blurCanvas)
        c4 == CtxRestore(c3)
    IN  [ctx |-> c4,
         blurCache |-> IF found = {}
                       THEN cs.blurCache \cup {[key |-> cacheKey, canvas |-> made]}
                       ELSE cs.blurCache,
         scratch |-> IF found = {} THEN Append(cs.scratch, made) ELSE cs.scratch,
         keys |-> Append(cs.keys, cacheKey)]

\* lines 350-378: blurRegions.forEach
RECURSIVE DrawRegions(_, _, _, _, _)
DrawRegions(cs, baseImage, blurRegions, k, scale) ==
    IF k > Len(blurRegions) THEN cs
    ELSE DrawRegions(DrawRegion(cs, baseImage, blurRegions[k], k, scale),
                     baseImage, blurRegions, k + 1, scale)

\* lines 340-380 where getContext gave a context
CompositeCanvas(baseImage, foregroundImage, blurRegions, rootWidth) ==
    LET scale == RasterScale(baseImage, rootWidth)
        c0 == CtxDrawImage(OutputCanvas(baseImage, rootWidth), baseImage)
        cs == DrawRegions([ctx |-> c0, blurCache |-> {}, scratch |-> <<>>, keys |-> <<>>],
                          baseImage, blurRegions, 1, scale)
    IN  [cs EXCEPT !.ctx = CtxDrawImage(@, foregroundImage)]

NotComposited ==
    [ctx |-> [width |-> 0, height |-> 0, ops |-> <<>>, clip |-> {}, stack |-> <<>>,
              content |-> <<>>],
     blurCache |-> {}, scratch |-> <<>>, keys |-> <<>>]

BaseRaster(width, height) == Raster("base", 0, width, height, FALSE, Zero)
ForegroundRaster(width, height, transparent) ==
    Raster("foreground", 0, width, height, transparent, Zero)

CompositeIdle ==
    /\ compInput = [baseImage |-> BaseRaster(1, 1),
                    foregroundImage |-> ForegroundRaster(1, 1, TRUE),
                    blurRegions |-> <<>>, rootWidth |-> 1]
    /\ compOutput = NotComposited

----------------------------------------------------------------------------
(* Content-driven layout inputs of CalendarCanvas, part_003 lines 693-739   *)
(* and 837-1012.  Text fields enter only by their length; estimates are     *)
(* exact fractions; a time is the string held in the event.                 *)

EVENT_BLOCK_PADDING == 20
lineHeight    == Rat(7, 5)       \* 1.4
charWidthRate == Rat(11, 20)     \* 0.55
maxHourHeight == 200

\* Operands that are themselves computed are bound to their value first
\* (v \in {x}), so that each is computed once.

RatInt(n) == Rat(n, 1)
RatDiv(p, q) == CHOOSE r \in {Rat(a.num * b.den, a.den * b.num) : a \in {p}, b \in {q}} : TRUE
RatLeq(p, q) == \E a \in {p}, b \in {q} : a.num * b.den <= b.num * a.den
RatMax(p, q) == CHOOSE r \in {IF RatLeq(a, b) THEN b ELSE a : a \in {p}, b \in {q}} : TRUE
RatMin(p, q) == CHOOSE r \in {IF RatLeq(a, b) THEN a ELSE b : a \in {p}, b \in {q}} : TRUE

\* a finite number as a fraction, and back
AsRat(x) == Rat(x.num, x.den)
AsNum(r) == Num(r.num, r.den)

\* a fraction as a fixed-point length, rounded down
ToFx(r) == (r.num * Scale) \div r.den

\* String.prototype.split(':')
RECURSIVE SplitColon(_)
SplitColon(s) ==
    IF \E i \in 1..Len(s) : s[i] = ":"
    THEN LET i == CHOOSE j \in 1..Len(s) : s[j] = ":" /\ \A k \in 1..(j - 1) : s[k] # ":"
         IN  <<SubSeq(s, 1, i - 1)>> \o SplitColon(SubSeq(s, i + 1, Len(s)))
    ELSE <<s>>

\* parts[i] of a split, where a missing element is undefined
Undefined == <<"u", "n", "d", "e", "f", "i", "n", "e", "d">>
Part(parts, i) == IF i <= Len(parts) THEN parts[i] ELSE Undefined

\* parseInt: the leading digits, NaN without any (also for '' and undefined)
parseInt(s) ==
    LET n == DigitRun(s, 1) IN IF n = 0 THEN NaN ELSE Num(DigitsValue(s, 1, n), 1)

\* Number(s) of a split part: '' is 0, digits are their value, anything else NaN
ToNumber(s) ==
    IF s = <<>> THEN Zero
    ELSE IF DigitRun(s, 1) = Len(s) THEN Num(DigitsValue(s, 1, Len(s)), 1) ELSE NaN

\* lines 974-975: parseInt(h) + parseInt(m) / 60
TimeValue(time) ==
    CHOOSE r \in {IF IsFinite(h) /\ IsFinite(m) THEN AsNum(Rat(h.num * 60 + m.num, 60)) ELSE NaN :
                     h \in {parseInt(Part(SplitColon(time), 1))},
                     m \in {parseInt(Part(SplitColon(time), 2))}} : TRUE

\* roundToNearestHalfHour, lines 837-839: Math.round(t * 2) / 2, held as the
\* number of half hours (Math.round rounds half up)
roundToNearestHalfHour(t) == (4 * t.num + t.den) \div (2 * t.den)

\* lines 974-978: durationHours, as a number of half hours, or NaN
DurationHalves(event) ==
    CHOOSE r \in {IF IsFinite(startVal) /\ IsFinite(endVal)
                  THEN Num(Max(1, roundToNearestHalfHour(endVal)
                                  - roundToNearestHalfHour(startVal)), 2)
                  ELSE NaN :
                     startVal \in {TimeValue(event.startTime)},
                     endVal \in {TimeValue(event.endTime)}} : TRUE

\* the title shown: event.title or event.displayTitle, by its length
TitleLength(event, showFullTitle) ==
    IF showFullTitle THEN event.titleLen ELSE event.displayTitleLen

CeilDiv(a, b) == (a + b - 1) \div b

\* lines 854-893 with the title lines not capped at two
calculateMinEventHeightUncapped(event, tpl, showFullTitle) ==
    LET smallLine  == tpl.detailsFontSize * 7
        titleLines == CeilDiv(TitleLength(event, showFullTitle), 12)
        wantsNotes == IF event.includeNotes = "unset" THEN tpl.showNotes
                      ELSE event.includeNotes = "true"
    IN  Rat(16 * 5 + tpl.titleFontSize * 7 * titleLines
            + (IF tpl.showClassType THEN smallLine + 4 * 5 ELSE 0)
            + (IF ~tpl.compact /\ tpl.showTime THEN smallLine + 2 * 5 ELSE 0)
            + (IF ~tpl.compact /\ tpl.showLocation /\ event.locationLen > 0
               THEN smallLine + 2 * 5 ELSE 0)
            + (IF ~tpl.compact /\ wantsNotes /\ event.notesLen > 0
               THEN smallLine * 2 + 8 * 5 ELSE 0), 5)

\* calculateMinEventHeight, lines 854-893, summed in fifths of a pixel (the
\* line height 1.4 is 7/5)
calculateMinEventHeight(event, tpl, showFullTitle) ==
    LET baseFontSize  == tpl.titleFontSize
        smallFontSize == tpl.detailsFontSize
        smallLine     == smallFontSize * 7
        titleLines    == CeilDiv(TitleLength(event, showFullTitle), 12)
        titleHeight   == baseFontSize * 7 * Min(titleLines, 2)
        classType     == IF tpl.showClassType THEN smallLine + 4 * 5 ELSE 0
        time          == IF ~tpl.compact /\ tpl.showTime THEN smallLine + 2 * 5 ELSE 0
        location      == IF ~tpl.compact /\ tpl.showLocation /\ event.locationLen > 0
                         THEN smallLine + 2 * 5 ELSE 0
        wantsNotes    == IF event.includeNotes = "unset" THEN tpl.showNotes
                         ELSE event.includeNotes = "true"
        notes         == IF ~tpl.compact /\ wantsNotes /\ event.notesLen > 0
                         THEN smallLine * 2 + 8 * 5 ELSE 0
    IN  Rat(16 * 5 + titleHeight + classType + time + location + notes, 5)

\* line 984 with the division turned into a multiplication
RequiredHourHeightTimes(minContentHeight, durationHours) ==
    CHOOSE r \in {IF IsFinite(d) THEN AsNum(RatMul(h, AsRat(d))) ELSE NaN :
                     h \in {minContentHeight}, d \in {durationHours}} : TRUE

\* line 984: minContentHeight / durationHours
RequiredHourHeight(minContentHeight, durationHours) ==
    CHOOSE r \in {IF IsFinite(d) THEN AsNum(RatDiv(h, AsRat(d))) ELSE NaN :
                     h \in {minContentHeight}, d \in {durationHours}} : TRUE

\* Math.max and Math.min: NaN if either argument is
MathMax(x, y) ==
    CHOOSE r \in {IF IsFinite(a) /\ IsFinite(b) THEN AsNum(RatMax(AsRat(a), AsRat(b))) ELSE NaN :
                     a \in {x}, b \in {y}} : TRUE

MathMin(x, y) ==
    CHOOSE r \in {IF IsFinite(a) /\ IsFinite(b) THEN AsNum(RatMin(AsRat(a), AsRat(b))) ELSE NaN :
                     a \in {x}, b \in {y}} : TRUE

\* lines 972-987: maxRequiredHourHeight after the first n events
RECURSIVE MaxRequiredHourHeight(_, _, _, _)
MaxRequiredHourHeight(evs, tpl, showFullTitle, n) ==
    IF n = 0 THEN Num(baseHourHeight, 1)
    ELSE MathMax(MaxRequiredHourHeight(evs, tpl, showFullTitle, n - 1),
                 RequiredHourHeight(calculateMinEventHeight(evs[n], tpl, showFullTitle),
                                    DurationHalves(evs[n])))

\* hourHeight, lines 967-995
HourHeightOf(evs, tpl, showFullTitle) ==
    IF Len(evs) = 0 THEN Num(baseHourHeight, 1)
    ELSE MathMax(Num(baseHourHeight, 1),
                 MathMin(MaxRequiredHourHeight(evs, tpl, showFullTitle, Len(evs)),
                         Num(maxHourHeight, 1)))

\* lines 716-734 with the title as the only field
RequiredWidthTitleOnly(event, tpl, showFullTitle) ==
    Rat(TitleLength(event, showFullTitle) * tpl.titleFontSize * 11 + EVENT_BLOCK_PADDING * 40, 40)

\* lines 716-734 for one event: the width its widest field needs, in 40ths of
\* a pixel (the character width 0.55 is 11/20, halved for two lines)
RequiredWidth(event, tpl, showFullTitle) ==
    LET titleWidth == TitleLength(event, showFullTitle) * tpl.titleFontSize * 11
        classTypeWidth ==
            IF tpl.showClassType THEN event.classTypeLen * tpl.detailsFontSize * 11 ELSE 0
        locationWidth ==
            IF tpl.showLocation /\ event.locationLen > 0 /\ ~tpl.compact
            THEN event.locationLen * tpl.detailsFontSize * 11 + 14 * 40
            ELSE 0
    IN  Rat(Max(titleWidth, Max(classTypeWidth, locationWidth)) + EVENT_BLOCK_PADDING * 40, 40)

RECURSIVE MaxRequiredWidth(_, _, _, _)
MaxRequiredWidth(evs, tpl, showFullTitle, n) ==
    IF n = 0 THEN RatInt(ABSOLUTE_MIN_BLOCK_WIDTH)
    ELSE RatMax(MaxRequiredWidth(evs, tpl, showFullTitle, n - 1),
                RequiredWidth(evs[n], tpl, showFullTitle))

\* calculateMinBlockWidth, lines 693-739
calculateMinBlockWidth(evs, tpl, showFullTitle) ==
    IF Len(evs) = 0 THEN RatInt(ABSOLUTE_MIN_BLOCK_WIDTH)
    ELSE MaxRequiredWidth(evs, tpl, showFullTitle, Len(evs))

\* visibleDays.length, lines 929-932
VisibleDayCount(evs) == IF \E i \in 1..Len(evs) : evs[i].dayIndex >= 5 THEN 7 ELSE 5

\* lines 942-950: minH and maxH after the first n events; a comparison with
\* NaN is false
RECURSIVE HourExtent(_, _)
HourExtent(evs, n) ==
    IF n = 0 THEN [minH |-> 24, maxH |-> 0]
    ELSE CHOOSE r \in
             {LET eH == ToNumber(Part(endParts, 1))
                  eM == IF Len(endParts) >= 2 THEN ToNumber(endParts[2]) ELSE NaN
                  effectiveEnd == IF ~IsFinite(eH) THEN NaN
                                  ELSE IF IsFinite(eM) /\ eM.num > 0 THEN Num(eH.num + 1, 1)
                                  ELSE eH
              IN  [minH |-> IF IsFinite(sH) /\ sH.num < prev.minH THEN sH.num ELSE prev.minH,
                   maxH |-> IF IsFinite(effectiveEnd) /\ effectiveEnd.num > prev.maxH
                            THEN effectiveEnd.num ELSE prev.maxH] :
                 prev \in {HourExtent(evs, n - 1)},
                 sH \in {ToNumber(Part(SplitColon(evs[n].startTime), 1))},
                 endParts \in {SplitColon(evs[n].endTime)}} : TRUE

\* lines 952-963 without the second test of line 956
WindowAroundNoBackfill(ext) ==
    LET maxH0 == Min(24, ext.maxH)
        short == maxH0 - ext.minH < 4
        maxH1 == IF short THEN Min(24, ext.minH + 4) ELSE maxH0
    IN  [startHour |-> ext.minH, hourRange |-> maxH1 - ext.minH]

\* lines 952-963: the window of at least four hours around minH..maxH
WindowAround(ext) ==
    LET maxH0 == Min(24, ext.maxH)
        short == maxH0 - ext.minH < 4
        maxH1 == IF short THEN Min(24, ext.minH + 4) ELSE maxH0
        minH1 == IF short /\ maxH1 - ext.minH < 4 THEN Max(0, maxH1 - 4) ELSE ext.minH
    IN  [startHour |-> minH1, hourRange |-> maxH1 - minH1]

\* lines 935-964 without the fallback of lines 936-938
HourWindowNoDefault(evs) ==
    CHOOSE w \in {WindowAround(ext) : ext \in {HourExtent(evs, Len(evs))}} : TRUE

\* startHour and hourRange, lines 935-964
HourWindow(evs) ==
    IF Len(evs) = 0 THEN [startHour |-> 8, hourRange |-> 10]
    ELSE CHOOSE w \in {WindowAround(ext) : ext \in {HourExtent(evs, Len(evs))}} : TRUE

\* a length that is NaN, among fixed-point lengths (which are never negative)
NaNLength == -1

\* calculateCanvasDimensions as CalendarCanvas calls it (lines 1004-1012).
\* With a NaN hour height every comparison of lines 789-792 is false: the
\* width stays natural and the heights are NaN.
SolveDimensions(nDays, hRange, hourHeight, slider, blockWidth) ==
    CHOOSE d \in {IF IsFinite(hourHeight)
                  THEN calculateCanvasDimensions(nDays, hRange, hh, slider, bw)
                  ELSE [width      |-> NaturalCanvasWidth(nDays, bw),
                        height     |-> NaNLength,
                        gridWidth  |-> NaturalGridWidth(nDays, bw),
                        gridHeight |-> NaNLength] :
                     hh \in {IF IsFinite(hourHeight) THEN ToFx(AsRat(hourHeight)) ELSE NaNLength},
                     bw \in {ToFx(blockWidth)}} : TRUE

\* React.useMemo: the cell keeps its value while its dependencies are unchanged
useMemo(cell, deps, value) ==
    IF cell.deps = deps THEN cell ELSE [deps |-> deps, value |-> value]

EmptyCell == [deps |-> <<>>, value |-> 0]

\* a CalendarCanvas that has not rendered yet
Unmounted ==
    [visibleDays |-> EmptyCell, window |-> EmptyCell, hourHeight |-> EmptyCell,
     minBlockWidth |-> EmptyCell, canvasDimensions |-> EmptyCell, remounted |-> FALSE]

\* a CalendarCanvas mounted in place of an unmounted one
Remounted == [Unmounted EXCEPT !.remounted = TRUE]

\* the dependency list of line 1012 without minBlockWidth
DimensionDepsNoWidth(tpl, nDays, hRange, hourHeight, blockWidth) ==
    <<tpl.aspectRatio, nDays, hRange, hourHeight>>

\* the dependency list of line 1012
DimensionDeps(tpl, nDays, hRange, hourHeight, blockWidth) ==
    <<tpl.aspectRatio, nDays, hRange, hourHeight, blockWidth>>

\* lines 1004-1012: the canvasDimensions cell once the other cells hold their
\* values
RenderDimensions(canvas, tpl, days, window, height, width) ==
    [visibleDays |-> days, window |-> window, hourHeight |-> height,
     minBlockWidth |-> width,
     canvasDimensions |->
         useMemo(canvas.canvasDimensions,
                 DimensionDeps(tpl, days.value, window.value.hourRange,
                               height.value, width.value),
                 SolveDimensions(days.value, window.value.hourRange, height.value,
                                 tpl.aspectRatio, width.value)),
     remounted |-> canvas.remounted]

\* one render of CalendarCanvas (lines 929-1012) with props evs and tpl;
\* showFullTitle is not passed by ExportStep and defaults to false
RenderCanvas(canvas, evs, tpl) ==
    CHOOSE c \in {RenderDimensions(canvas, tpl, days, window, height, width) :
                     days   \in {useMemo(canvas.visibleDays, <<evs>>, VisibleDayCount(evs))},
                     window \in {useMemo(canvas.window, <<evs>>, HourWindow(evs))},
                     height \in {useMemo(canvas.hourHeight, <<evs, tpl, FALSE>>,
                                          HourHeightOf(evs, tpl, FALSE))},
                     width  \in {useMemo(canvas.minBlockWidth, <<evs, tpl, FALSE>>,
                                          calculateMinBlockWidth(evs, tpl, FALSE))}} : TRUE

\* times held by events
Time(h1, h2, m1, m2) == <<Digits[h1 + 1], Digits[h2 + 1], ":", Digits[m1 + 1], Digits[m2 + 1]>>
ClearedTime == <<>>

Event(dayIndex, startTime, endTime, titleLen, displayTitleLen, classTypeLen, locationLen, notesLen, includeNotes) ==
    [dayIndex |-> dayIndex, startTime |-> startTime, endTime |-> endTime,
     titleLen |-> titleLen, displayTitleLen |-> displayTitleLen,
     classTypeLen |-> classTypeLen, locationLen |-> locationLen,
     notesLen |-> notesLen, includeNotes |-> includeNotes]

\* an hour-long lecture; a half-hour entry with every field filled; a weekend
\* entry ending before it starts; an entry whose start time was cleared in
\* the time input; a nine-minute entry at the end of the day, whose aligned
\* duration is zero
EventChoices ==
    {Event(0, Time(0, 9, 0, 0), Time(1, 0, 0, 0), 12, 6, 7, 0, 0, "unset"),
     Event(1, Time(0, 9, 0, 0), Time(0, 9, 3, 0), 30, 20, 8, 24, 10, "true"),
     Event(5, Time(1, 1, 3, 0), Time(0, 9, 5, 0), 12, 6, 7, 0, 4, "false"),
     Event(0, ClearedTime, Time(1, 0, 0, 0), 12, 6, 7, 0, 0, "unset"),
     Event(3, Time(2, 3, 5, 0), Time(2, 3, 5, 9), 40, 40, 3, 8, 0, "unset")}

Template(titleFontSize, detailsFontSize, showAll, compact, aspectRatio, lockscreenMockup) ==
    [titleFontSize |-> titleFontSize, detailsFontSize |-> detailsFontSize,
     showClassType |-> showAll, showTime |-> showAll, showLocation |-> showAll,
     showNotes |-> showAll, compact |-> compact,
     aspectRatio |-> aspectRatio, lockscreenMockup |-> lockscreenMockup]

\* the default sizes (App.tsx lines 36-38), the smallest the controls allow
\* with every optional line off, and the compact layout; the slider at either
\* end
Templates ==
    {Template(sizes[1], sizes[2], sizes[3], sizes[4], ratio, mockup) :
        sizes \in {<<12, 10, TRUE, FALSE>>, <<6, 6, FALSE, FALSE>>,
                   <<12, 10, TRUE, TRUE>>},
        ratio \in {0, SliderSteps}, mockup \in BOOLEAN}

Instances == {"visible", "hidden"}

ContentIdle ==
    /\ events = <<>>
    /\ template = Template(12, 10, TRUE, FALSE, 0, FALSE)
    /\ canvases = [i \in Instances |-> Unmounted]

----------------------------------------------------------------------------
(* Initial values of each group of variables when its machine is not run *)

LayoutIdle ==
    /\ numDays = 5
    /\ hourRange = 10
    /\ contentBasedHourHeight = baseHourHeight * Scale
    /\ minBlockWidth = ABSOLUTE_MIN_BLOCK_WIDTH * Scale
    /\ aspectRatioSlider = 0
    /\ canvasDimensions = calculateCanvasDimensions(5, 10, baseHourHeight * Scale, 0,
                                                    ABSOLUTE_MIN_BLOCK_WIDTH * Scale)

BlurIdle ==
    /\ filterValue = <<>>
    /\ parsedBlur = NotParsed
    /\ surface = EmptySurface
    /\ collected = NotCollected

Exports == 1..MaxExports

\* A DOM subtree: where its root is attached ("document", "staging" or
\* "none") and, per descendant, its data-component and its inline style
\* ("" is a property not set inline).
NoTree == [parent |-> "none", children |-> <<>>]

InlineStyle ==
    [visibility |-> "", display |-> "", borderColor |-> "", background |-> "",
     backgroundColor |-> "", boxShadow |-> "", backdropFilter |-> "",
     webkitBackdropFilter |-> ""]

\* the element with id calendar-export-hidden rendering the surface
TreeOf(root) ==
    [parent |-> "document",
     children |-> [k \in 1..Len(root.nodes) |->
                      [component |-> root.nodes[k].component, inline |-> InlineStyle]]]

NewFrame ==
    [layer |-> "none",            \* which captureLayer call is running
     loading |-> 0,               \* imgs of the clone still waiting for load/error
     broken |-> 0,                \* imgs complete with naturalWidth 0: no event will come
     node |-> "unset",            \* getElementById result: "null" or "element"
     clone |-> NoTree,            \* the clone made by the running captureLayer call
     blurRegions |-> <<>>,
     baseImage |-> FALSE,         \* the base raster has resolved
     foregroundImage |-> FALSE,   \* the foreground raster has resolved
     ctx |-> "unset",             \* canvas.getContext('2d'): "null" or "ok"
     canvas |-> NotComposited,    \* the output canvas once line 380 has run
     blob |-> "unset",            \* canvas.toBlob result: "null" or "ok"
     downloads |-> 0,             \* link.click() calls
     fetches |-> 0,               \* fetchFontEmbedCSS() calls
     log |-> <<>>,                \* pipeline steps taken so far, in order
     result |-> "pending"]        \* the promise of downloadCalendarExport

ExportIdle ==
    /\ fontCSSCache = "null"
    /\ stagingRoot = FALSE
    /\ bodyStagingRoots = 0
    /\ stagingChildren = {}
    /\ hasFontsApi = TRUE
    /\ liveNode = NoTree
    /\ isExporting = FALSE
    /\ buttonDisabled = FALSE
    /\ pc = [e \in Exports |-> "notStarted"]
    /\ frame = [e \in Exports |-> NewFrame]

----------------------------------------------------------------------------
(* The layout state machine: CalendarCanvas recomputes canvasDimensions     *)
(* (useMemo, part_003 lines 1004-1012) whenever one of its inputs changes.  *)

HourHeights == {(baseHourHeight + 70 * j) * Scale : j \in 0..MaxHeightIdx}
BlockWidths == {(ABSOLUTE_MIN_BLOCK_WIDTH + 30 * j) * Scale : j \in 0..MaxWidthIdx}

LayoutInit ==
    /\ numDays \in 1..MaxDays
    /\ hourRange \in 1..MaxHourRange
    /\ contentBasedHourHeight \in HourHeights
    /\ minBlockWidth \in BlockWidths
    /\ aspectRatioSlider \in 0..SliderSteps
    /\ canvasDimensions = calculateCanvasDimensions(numDays, hourRange,
                              contentBasedHourHeight, aspectRatioSlider, minBlockWidth)
    /\ BlurIdle
    /\ ExportIdle
    /\ CompositeIdle
    /\ ContentIdle

\* the user drags the aspect-ratio slider; everything else is held fixed
SetAspectRatio(k) ==
    /\ k # aspectRatioSlider
    /\ aspectRatioSlider' = k
    /\ canvasDimensions' = calculateCanvasDimensions(numDays, hourRange,
                               contentBasedHourHeight, k, minBlockWidth)
    /\ UNCHANGED <<numDays, hourRange, contentBasedHourHeight, minBlockWidth>>
    /\ UNCHANGED <<blurVars, exportVars, compositeVars, contentVars>>

\* the events or the template text settings change: new content-driven minimums
SetContent(d, r, h, w) ==
    /\ <<d, r, h, w>> # <<numDays, hourRange, contentBasedHourHeight, minBlockWidth>>
    /\ numDays' = d
    /\ hourRange' = r
    /\ contentBasedHourHeight' = h
    /\ minBlockWidth' = w
    /\ canvasDimensions' = calculateCanvasDimensions(d, r, h, aspectRatioSlider, w)
    /\ UNCHANGED aspectRatioSlider
    /\ UNCHANGED <<blurVars, exportVars, compositeVars, contentVars>>

LayoutNext ==
    \/ \E k \in 0..SliderSteps : SetAspectRatio(k)
    \/ \E d \in 1..MaxDays, r \in 1..MaxHourRange, h \in HourHeights, w \in BlockWidths :
           SetContent(d, r, h, w)

SpecLayout == LayoutInit /\ [][LayoutNext]_vars

----------------------------------------------------------------------------
(* The blur machine: parseBlurPx applied to one string, collectBlurRegions  *)
(* applied to one surface.                                                   *)

BlurInit ==
    /\ filterValue \in FilterStrings
    /\ surface \in Surfaces
    /\ surface = EmptySurface \/ filterValue \in SurfaceFilters
    /\ parsedBlur = NotParsed
    /\ collected = NotCollected
    /\ LayoutIdle
    /\ ExportIdle
    /\ CompositeIdle
    /\ ContentIdle

ParseBlur ==
    /\ parsedBlur = NotParsed
    /\ parsedBlur' = parseBlurPx(filterValue)
    /\ UNCHANGED <<filterValue, surface, collected>>
    /\ UNCHANGED <<layoutVars, exportVars, compositeVars, contentVars>>

Collect ==
    /\ ~collected.done
    /\ collected' = [done |-> TRUE, regions |-> collectBlurRegions(surface)]
    /\ UNCHANGED <<filterValue, surface, parsedBlur>>
    /\ UNCHANGED <<layoutVars, exportVars, compositeVars, contentVars>>

BlurNext == ParseBlur \/ Collect

SpecBlur == BlurInit /\ [][BlurNext]_vars

----------------------------------------------------------------------------
(* The export machine.  One export is one click on Download: handleDownload *)
(* (ExportStep.tsx lines 402-410) calling downloadCalendarExport            *)
(* (exportPipeline.ts lines 309-393).  An action is the code that runs from *)
(* the resumption of one await to the next await; exports interleave only   *)
(* at awaits.  St bundles what the running code can read and write.         *)

St(e) ==
    [pc |-> pc[e], f |-> frame[e], cache |-> fontCSSCache, root |-> stagingRoot,
     roots |-> bodyStagingRoots, children |-> stagingChildren, live |-> liveNode]

Commit(e, st) ==
    /\ pc' = [pc EXCEPT ![e] = st.pc]
    /\ frame' = [frame EXCEPT ![e] = st.f]
    /\ fontCSSCache' = st.cache
    /\ stagingRoot' = st.root
    /\ bodyStagingRoots' = st.roots
    /\ stagingChildren' = st.children
    /\ liveNode' = st.live

Logged(st, step) == [st EXCEPT !.f.log = Append(@, step)]

\* downloadCalendarExport returns (its promise resolves) or throws (it rejects);
\* handleDownload resumes after its await on line 408
Return(st) == [st EXCEPT !.f.result = "resolved", !.pc = "resume"]
Reject(st) == [st EXCEPT !.f.result = "rejected", !.pc = "resume"]

\* a staging root is created on every call
ensureStagingRootAlways(st) ==
    [st EXCEPT !.root = TRUE, !.roots = @ + 1]

\* lines 40-51
ensureStagingRoot(st) ==
    IF st.root THEN st ELSE [st EXCEPT !.root = TRUE, !.roots = @ + 1]

\* node.cloneNode(true): a deep copy, attached nowhere
cloneNode(node) == [node EXCEPT !.parent = "none"]

\* staging.appendChild(child) moves child under the staging div
appendChild(child) == [child EXCEPT !.parent = "staging"]

\* staging.removeChild(child)
removeChild(child) == [child EXCEPT !.parent = "none"]

\* el.style.visibility = 'hidden' on every descendant matching a selector
HideComponents(tree, components) ==
    [tree EXCEPT !.children =
        [k \in 1..Len(tree.children) |->
            IF tree.children[k].component \in components
            THEN [tree.children[k] EXCEPT !.inline.visibility = "hidden"]
            ELSE tree.children[k]]]

\* lines 182-196
applyBaseLayerVisibility(clone) ==
    HideComponents(clone, {"DayHeader", "TimeColumn", "EventBlock", "EmptySlot",
                           "CalendarFooter"})

\* lines 227-229 on the computed style of descendant k
HasBackdrop(k) ==
    LET style == surface.nodes[k].style
    IN  \/ style.backdropFilter # <<>> /\ style.backdropFilter # NoneLiteral
        \/ style.webkitBackdropFilter # <<>> /\ style.webkitBackdropFilter # NoneLiteral

\* lines 198-234
applyForegroundLayerVisibility(clone) ==
    LET hidden == HideComponents(clone, {"BackgroundLayer", "GridLines", "EmptySlot",
                                         "CalendarFooter"})
        Restyle(k, el) ==
            LET e1 == IF el.component = "DayColumn"
                      THEN [el EXCEPT !.inline.borderColor = "transparent"] ELSE el
                e2 == IF el.component \in {"CalendarCard", "BackgroundContainer"}
                      THEN [e1 EXCEPT !.inline.background = "transparent",
                                      !.inline.backgroundColor = "transparent",
                                      !.inline.boxShadow = "none",
                                      !.inline.borderColor = "transparent"]
                      ELSE e1
            IN  IF HasBackdrop(k)
                THEN [e2 EXCEPT !.inline.backdropFilter = "none",
                                !.inline.webkitBackdropFilter = "none"]
                ELSE e2
    IN  [hidden EXCEPT !.children =
            [k \in 1..Len(hidden.children) |-> Restyle(k, hidden.children[k])]]

\* options.prepare of the two captureLayer calls (lines 331 and 337)
prepare(layer, tree) ==
    IF layer = "base" THEN applyBaseLayerVisibility(tree)
    ELSE applyForegroundLayerVisibility(tree)

\* line 247 with the mutation applied to the node passed in
PrepareNode(st, layer) == [st EXCEPT !.live = prepare(layer, @)]

\* line 247: options.prepare(clone)
PrepareClone(st, layer) == [st EXCEPT !.f.clone = prepare(layer, @)]

\* img elements of a fresh clone that are not complete with naturalWidth > 0
ImageSets == {[loading |-> l, broken |-> b] : l \in 0..MaxImages, b \in 0..MaxImages}
CloneImages == {imgs \in ImageSets : imgs.loading + imgs.broken <= MaxImages}

\* captureLayer lines 244-248: up to the await on waitForImages (lines 91-108),
\* which attaches load/error handlers to every img that is not already loaded
CaptureStart(e, st, layer, imgs) ==
    LET s1 == ensureStagingRoot(Logged(st, layer))
        s2 == [s1 EXCEPT !.f.clone = appendChild(cloneNode(s1.live)),
                         !.children = @ \cup {<<e, layer>>}]
        s3 == PrepareClone(s2, layer)
    IN  [s3 EXCEPT !.f.layer = layer,
                   !.f.loading = imgs.loading,
                   !.f.broken = imgs.broken,
                   !.pc = "images"]

\* lines 325-332.  The live surface does not change while exports run, so
\* collectBlurRegions(node) returns the value held in collected (see ExportInit).
CollectAndCaptureBase(e, st, imgs) ==
    CaptureStart(e, [Logged(st, "collect") EXCEPT !.f.blurRegions = collected.regions],
                 "base", imgs)

\* lines 321-332 with the test of line 321 written if (!fontCSSCache)
ObtainFontCSSIfFalsy(e, st, imgs) ==
    IF st.cache \in {"null", ""}
    THEN [Logged(st, "fontCSS") EXCEPT !.pc = "fontCSS", !.f.fetches = @ + 1]
    ELSE CollectAndCaptureBase(e, Logged(st, "fontCSS"), imgs)

\* lines 321-332: fetch the font CSS unless it is cached
ObtainFontCSS(e, st, imgs) ==
    IF st.cache = "null"
    THEN [Logged(st, "fontCSS") EXCEPT !.pc = "fontCSS", !.f.fetches = @ + 1]
    ELSE CollectAndCaptureBase(e, Logged(st, "fontCSS"), imgs)

\* lines 314-319
StartExport(e, st, found, imgs) ==
    IF ~found THEN Return([st EXCEPT !.f.node = "null"])
    ELSE LET s1 == [st EXCEPT !.f.node = "element"]
         IN  IF hasFontsApi THEN [Logged(s1, "fonts") EXCEPT !.pc = "fontsReady"]
             ELSE ObtainFontCSS(e, s1, imgs)

\* the rasters htmlToImage.toPng gives for the surface at the default pixel ratio
ExportBaseRaster ==
    BaseRaster(RootRect.width * DEFAULT_PIXEL_RATIO, RootRect.height * DEFAULT_PIXEL_RATIO)
ExportForegroundRaster ==
    ForegroundRaster(RootRect.width * DEFAULT_PIXEL_RATIO,
                     RootRect.height * DEFAULT_PIXEL_RATIO, FALSE)

\* lines 340-384: composite onto the output canvas and start the encoding
Composite(st, ctxOk) ==
    IF ~ctxOk THEN Return([st EXCEPT !.f.ctx = "null"])
    ELSE [Logged(Logged([st EXCEPT !.f.ctx = "ok"], "composite"), "encode")
            EXCEPT !.pc = "toBlob",
                   !.f.canvas = CompositeCanvas(ExportBaseRaster, ExportForegroundRaster,
                                                st.f.blurRegions, RootRect.width)]

\* lines 385-392 without the test of line 385
FinishNoBlobTest(st, blobOk) ==
    Return([Logged(st, "download") EXCEPT
               !.f.blob = IF blobOk THEN "ok" ELSE "null",
               !.f.downloads = @ + 1])

\* lines 385-392
Finish(st, blobOk) ==
    IF ~blobOk THEN Return([st EXCEPT !.f.blob = "null"])
    ELSE Return([Logged(st, "download") EXCEPT !.f.blob = "ok", !.f.downloads = @ + 1])

\* line 260 left out: the clone stays in the staging div
AfterToPngKeepClone(e, st) == [st EXCEPT !.pc = "bitmap"]

\* lines 260-261: remove the clone, then decode the data URL
AfterToPng(e, st) ==
    [st EXCEPT !.children = @ \ {<<e, st.f.layer>>}, !.f.clone = removeChild(@),
               !.pc = "bitmap"]

Others == <<layoutVars, blurVars, compositeVars, contentVars>>

\* ExportStep.tsx lines 402-406 and 2241-2244: a click on the enabled button
Click(e) ==
    /\ pc[e] = "notStarted"
    /\ \A d \in Exports : d < e => pc[d] # "notStarted"
    /\ ~buttonDisabled
    /\ isExporting' = TRUE
    /\ pc' = [pc EXCEPT ![e] = "timeout"]
    /\ UNCHANGED <<fontCSSCache, stagingRoot, bodyStagingRoots, stagingChildren,
                   hasFontsApi, liveNode, buttonDisabled, frame, Others>>

\* React re-renders ExportStep: disabled={isExporting}
Render ==
    /\ buttonDisabled # isExporting
    /\ buttonDisabled' = isExporting
    /\ UNCHANGED <<fontCSSCache, stagingRoot, bodyStagingRoots, stagingChildren,
                   hasFontsApi, liveNode, isExporting, pc, frame, Others>>

Step(e, st) ==
    /\ Commit(e, st)
    /\ UNCHANGED <<hasFontsApi, isExporting, buttonDisabled, Others>>

\* the 300 ms timer of line 406 fires and downloadCalendarExport is called
TimeoutFired(e, found) ==
    /\ pc[e] = "timeout"
    /\ \E imgs \in CloneImages : Step(e, StartExport(e, St(e), found, imgs))

\* document.fonts.ready resolves (line 318)
FontsReady(e) ==
    /\ pc[e] = "fontsReady"
    /\ \E imgs \in CloneImages : Step(e, ObtainFontCSS(e, St(e), imgs))

\* fetchFontEmbedCSS resolves with the CSS, or with '' when a fetch failed
\* (lines 54-89: it never rejects); line 322 stores it
FontCSSFetched(e, css) ==
    /\ pc[e] = "fontCSS"
    /\ \E imgs \in CloneImages :
          Step(e, CollectAndCaptureBase(e, [St(e) EXCEPT !.cache = css], imgs))

\* a load or error event of one img of the clone: cleanup resolves its promise
ImageEvent(e) ==
    /\ pc[e] = "images"
    /\ frame[e].loading > 0
    /\ Step(e, [St(e) EXCEPT !.f.loading = @ - 1])

\* Promise.all of waitForImages resolves; line 250 calls toPng
ImagesSettled(e) ==
    /\ pc[e] = "images"
    /\ frame[e].loading = 0 /\ frame[e].broken = 0
    /\ Step(e, [St(e) EXCEPT !.pc = "toPng"])

ToPngResolved(e) ==
    /\ pc[e] = "toPng"
    /\ Step(e, AfterToPng(e, St(e)))

\* toPng rejects: captureLayer and downloadCalendarExport reject with it
ToPngRejected(e) ==
    /\ pc[e] = "toPng"
    /\ Step(e, Reject(St(e)))

\* dataUrlToImageBitmap resolves for the base layer; line 334 starts the second capture
BaseDecoded(e) ==
    /\ pc[e] = "bitmap"
    /\ frame[e].layer = "base"
    /\ \E imgs \in CloneImages :
          Step(e, CaptureStart(e, [St(e) EXCEPT !.f.baseImage = TRUE], "foreground", imgs))

\* dataUrlToImageBitmap resolves for the foreground layer; lines 340-384 follow
ForegroundDecoded(e, ctxOk) ==
    /\ pc[e] = "bitmap"
    /\ frame[e].layer = "foreground"
    /\ Step(e, Composite([St(e) EXCEPT !.f.foregroundImage = TRUE], ctxOk))

\* fetch, blob or createImageBitmap of lines 110-114 rejects
DecodeRejected(e) ==
    /\ pc[e] = "bitmap"
    /\ Step(e, Reject(St(e)))

\* canvas.toBlob calls back (line 382)
BlobEncoded(e, blobOk) ==
    /\ pc[e] = "toBlob"
    /\ Step(e, Finish(St(e), blobOk))

\* handleDownload resumes after line 408: setIsExporting(false)
ExportReturned(e) ==
    /\ pc[e] = "resume"
    /\ frame[e].result = "resolved"
    /\ isExporting' = FALSE
    /\ pc' = [pc EXCEPT ![e] = "done"]
    /\ UNCHANGED <<fontCSSCache, stagingRoot, bodyStagingRoots, stagingChildren,
                   hasFontsApi, liveNode, buttonDisabled, frame, Others>>

\* the await of line 408 throws: line 409 is not reached
ExportRejected(e) ==
    /\ pc[e] = "resume"
    /\ frame[e].result = "rejected"
    /\ pc' = [pc EXCEPT ![e] = "done"]
    /\ UNCHANGED <<fontCSSCache, stagingRoot, bodyStagingRoots, stagingChildren,
                   hasFontsApi, liveNode, isExporting, buttonDisabled, frame, Others>>

Plain(component) ==
    Element(component, "block", "visible", <<"1">>, NoneLiteral, <<>>, InsideRect)

\* the surface the exports capture: the calendar's components, with a blurred
\* event block and a blurred card
ExportSurface ==
    [rect |-> RootRect,
     self |-> RootElement(<<>>),
     nodes |-> <<Plain("BackgroundContainer"),
                 Plain("BackgroundLayer"),
                 Element("CalendarCard", "block", "visible", <<"1">>, Blur4, <<>>, InsideRect),
                 Plain("GridLines"),
                 Plain("DayHeader"),
                 Plain("TimeColumn"),
                 Plain("DayColumn"),
                 Element("EventBlock", "block", "visible", <<"1">>, Blur12, <<>>, InsideRect),
                 Plain("EmptySlot"),
                 Plain("CalendarFooter")>>]

ExportInit ==
    /\ fontCSSCache = "null"
    /\ stagingRoot = FALSE
    /\ bodyStagingRoots = 0
    /\ stagingChildren = {}
    /\ hasFontsApi \in BOOLEAN
    /\ liveNode = TreeOf(ExportSurface)
    /\ isExporting = FALSE
    /\ buttonDisabled = FALSE
    /\ pc = [e \in Exports |-> "notStarted"]
    /\ frame = [e \in Exports |-> NewFrame]
    /\ LayoutIdle
    /\ filterValue = <<>>
    /\ parsedBlur = NotParsed
    /\ surface = ExportSurface
    /\ collected = [done |-> TRUE, regions |-> collectBlurRegions(surface)]
    /\ CompositeIdle
    /\ ContentIdle

Advance(e) ==
    \/ \E found \in BOOLEAN : TimeoutFired(e, found)
    \/ FontsReady(e)
    \/ \E css \in {"css", ""} : FontCSSFetched(e, css)
    \/ ImageEvent(e)
    \/ ImagesSettled(e)
    \/ ToPngResolved(e)
    \/ ToPngRejected(e)
    \/ BaseDecoded(e)
    \/ \E ctxOk \in BOOLEAN : ForegroundDecoded(e, ctxOk)
    \/ DecodeRejected(e)
    \/ \E blobOk \in BOOLEAN : BlobEncoded(e, blobOk)
    \/ ExportReturned(e)
    \/ ExportRejected(e)

Next ==
    \/ \E e \in Exports : Click(e)
    \/ Render
    \/ \E e \in Exports : Advance(e)

Spec == ExportInit /\ [][Next]_vars

\* the event loop runs every continuation that is ready, the browser delivers
\* the load or error event of every img that is loading, React re-renders
FairSpec ==
    /\ Spec
    /\ WF_vars(Render)
    /\ \A e \in Exports : WF_vars(Advance(e))

\* exports that do not overlap and do not fail: the next click comes when no
\* export is in flight, the node, the 2D context and the blob are obtained,
\* and no awaited step rejects
NoExportInFlight == \A e \in Exports : pc[e] \in {"notStarted", "done"}

AdvanceSuccessfully(e) ==
    \/ TimeoutFired(e, TRUE)
    \/ FontsReady(e)
    \/ \E css \in {"css", ""} : FontCSSFetched(e, css)
    \/ ImageEvent(e)
    \/ ImagesSettled(e)
    \/ ToPngResolved(e)
    \/ BaseDecoded(e)
    \/ ForegroundDecoded(e, TRUE)
    \/ BlobEncoded(e, TRUE)
    \/ ExportReturned(e)

NextSequential ==
    \/ \E e \in Exports : NoExportInFlight /\ Click(e)
    \/ Render
    \/ \E e \in Exports : AdvanceSuccessfully(e)

SpecSequential == ExportInit /\ [][NextSequential]_vars

\* exports that do not overlap, whatever their outcome
NextNonOverlapping ==
    \/ \E e \in Exports : NoExportInFlight /\ Click(e)
    \/ Render
    \/ \E e \in Exports : Advance(e)

SpecNonOverlapping == ExportInit /\ [][NextNonOverlapping]_vars

----------------------------------------------------------------------------
(* The compositor machine: lines 340-380 applied once to given rasters and  *)
(* blur regions.                                                             *)

BlurValues == {Num(4, 1), Num(4001, 1000), Num(4004, 1000), Num(12, 1)}

RegionWith(blurPx) ==
    [x |-> 10, y |-> 10, width |-> 40, height |-> 30, blurPx |-> blurPx,
     radius |-> [tl |-> Num(8, 1), tr |-> Zero, br |-> Num(8, 1), bl |-> Zero]]

RegionLists ==
    UNION {[1..n -> {RegionWith(b) : b \in BlurValues}] : n \in 0..MaxRegions}

PixelRatios == {1, DEFAULT_PIXEL_RATIO}

CompositeInit ==
    /\ \E ratio \in PixelRatios, transparent \in BOOLEAN, regions \in RegionLists :
          compInput = [baseImage |-> BaseRaster(RootRect.width * ratio, RootRect.height * ratio),
                       foregroundImage |-> ForegroundRaster(RootRect.width * ratio,
                                               RootRect.height * ratio, transparent),
                       blurRegions |-> regions,
                       rootWidth |-> RootRect.width]
    /\ compOutput = NotComposited
    /\ LayoutIdle
    /\ BlurIdle
    /\ ExportIdle
    /\ ContentIdle

\* lines 340-380; without a 2D context the canvas is left as created
CompositeOnce(ctxOk) ==
    /\ compOutput = NotComposited
    /\ compOutput' =
          IF ctxOk
          THEN CompositeCanvas(compInput.baseImage, compInput.foregroundImage,
                               compInput.blurRegions, compInput.rootWidth)
          ELSE [NotComposited EXCEPT
                   !.ctx = OutputCanvas(compInput.baseImage, compInput.rootWidth)]
    /\ UNCHANGED <<compInput, layoutVars, blurVars, exportVars, contentVars>>

CompositeNext == \E ctxOk \in BOOLEAN : CompositeOnce(ctxOk)

SpecComposite == CompositeInit /\ [][CompositeNext]_vars

----------------------------------------------------------------------------
(* The content machine: ExportStep holds events and template and renders    *)
(* two CalendarCanvas instances with them (ExportStep.tsx lines 500-610).   *)
(* A state change re-renders both in the same pass; the visible instance is *)
(* mounted anew when template.lockscreenMockup switches the branch it is    *)
(* rendered in.                                                              *)

RenderBoth(evs, tpl) ==
    [i \in Instances |->
        RenderCanvas(IF i = "visible" /\ tpl.lockscreenMockup # template.lockscreenMockup
                     THEN Remounted ELSE canvases[i],
                     evs, tpl)]

ContentInit ==
    /\ events = <<>>
    /\ template \in Templates
    /\ canvases = [i \in Instances |-> RenderCanvas(Unmounted, events, template)]
    /\ LayoutIdle
    /\ BlurIdle
    /\ ExportIdle
    /\ CompositeIdle

\* entries come in with times written by normalizeTime
ImportedEvents == {ev \in EventChoices : ev.startTime # ClearedTime}

AddEvent(ev) ==
    /\ Len(events) < MaxEvents
    /\ events' = Append(events, ev)
    /\ canvases' = RenderBoth(events', template)
    /\ UNCHANGED <<template, layoutVars, blurVars, exportVars, compositeVars>>

RemoveEvent(i) ==
    /\ i \in 1..Len(events)
    /\ events' = SubSeq(events, 1, i - 1) \o SubSeq(events, i + 1, Len(events))
    /\ canvases' = RenderBoth(events', template)
    /\ UNCHANGED <<template, layoutVars, blurVars, exportVars, compositeVars>>

\* handleUpdateEvent stores what the editor's inputs hand it; the time input
\* hands '' when it is cleared
UpdateEvent(i, ev) ==
    /\ i \in 1..Len(events)
    /\ ev # events[i]
    /\ events' = [events EXCEPT ![i] = ev]
    /\ canvases' = RenderBoth(events', template)
    /\ UNCHANGED <<template, layoutVars, blurVars, exportVars, compositeVars>>

UpdateTemplate(tpl) ==
    /\ tpl # template
    /\ template' = tpl
    /\ canvases' = RenderBoth(events, tpl)
    /\ UNCHANGED <<events, layoutVars, blurVars, exportVars, compositeVars>>

ContentNext ==
    \/ \E ev \in ImportedEvents : AddEvent(ev)
    \/ \E i \in 1..MaxEvents : RemoveEvent(i)
    \/ \E i \in 1..MaxEvents, ev \in EventChoices : UpdateEvent(i, ev)
    \/ \E tpl \in Templates : UpdateTemplate(tpl)

SpecContent == ContentInit /\ [][ContentNext]_vars

CurrentBranch ==
    SolverBranch(numDays, hourRange, contentBasedHourHeight, aspectRatioSlider, minBlockWidth)

----------------------------------------------------------------------------
\* C1: in every branch of the solver the returned width is at least
\* minCanvasWidth and the returned height at least minCanvasHeight, and the
\* returned grid is at least numDays*minBlockWidth by hourRange*hourHeight.
FloorInvariant ==
    /\ canvasDimensions.width  >= MinCanvasWidth(numDays, minBlockWidth)
    /\ canvasDimensions.height >= MinCanvasHeight(hourRange, contentBasedHourHeight)
    /\ canvasDimensions.gridWidth  >= numDays * minBlockWidth
    /\ canvasDimensions.gridHeight >= hourRange * contentBasedHourHeight

\* the floor branch was taken and the height was expanded above the minimum
FloorWitness ==
    /\ CurrentBranch = "hold"
    /\ canvasDimensions.width = MinCanvasWidth(numDays, minBlockWidth)
    /\ canvasDimensions.height > MinCanvasHeight(hourRange, contentBasedHourHeight)

\* C2: for fixed content inputs, moving the slider up never lowers the
\* returned height and never raises the returned width.
SliderMonotone ==
    [][(/\ aspectRatioSlider' >= aspectRatioSlider
        /\ UNCHANGED <<numDays, hourRange, contentBasedHourHeight, minBlockWidth>>)
       => (/\ canvasDimensions'.height >= canvasDimensions.height
           /\ canvasDimensions'.width <= canvasDimensions.width)]_vars

\* C3: in the 'can shrink width' case the returned width/height equals the
\* target ratio up to rounding, also after the sqrt height inflation (the
\* width is within one fixed-point unit of height * targetRatio).
RatioInvariant ==
    CurrentBranch = "shrink" =>
        LET t == TargetRatio(aspectRatioSlider)
        IN  Abs(canvasDimensions.width * t.den - canvasDimensions.height * t.num)
                < Max(t.num, t.den)

\* the shrink branch was taken and the height was inflated above natural
RatioWitness ==
    /\ CurrentBranch = "shrink"
    /\ canvasDimensions.height
         > NaturalCanvasHeight(hourRange, contentBasedHourHeight)
    /\ canvasDimensions.width
         < NaturalCanvasWidth(numDays, minBlockWidth)

----------------------------------------------------------------------------
\* the string contains blur(<digits and dots>px) somewhere
HasBlurPattern(s) ==
    \E i \in 1..Len(s), n \in 1..Len(s) :
        /\ StartsWithAt(s, i, BlurOpen)
        /\ i + 4 + n <= Len(s)
        /\ \A k \in (i + 5)..(i + 4 + n) : IsDigit(s[k]) \/ s[k] = "."
        /\ StartsWithAt(s, i + 5 + n, BlurClose)

\* the element is rendered, is no structural container and overlaps the surface
Eligible(el, rootRect) ==
    /\ el.component \notin {"CalendarCard", "BackgroundContainer"}
    /\ el.style.display # "none"
    /\ el.style.visibility # "hidden"
    /\ ~EqZero(parseFloat(el.style.opacity))
    /\ el.rect.width > 0 /\ el.rect.height > 0
    /\ el.rect.left < rootRect.left + rootRect.width
    /\ el.rect.left + el.rect.width > rootRect.left
    /\ el.rect.top < rootRect.top + rootRect.height
    /\ el.rect.top + el.rect.height > rootRect.top

\* C10: parseBlurPx returns a finite number >= 0 for every string, and 0 when
\* the string holds no blur(<number>px); an element whose parsed blur is 0
\* gives no region, and every other element of the surface still gives one.
MalformedBlurHarmless ==
    /\ parsedBlur # NotParsed =>
          /\ IsFinite(parsedBlur)
          /\ parsedBlur.num >= 0
          /\ ~HasBlurPattern(filterValue) => parsedBlur.num = 0
    /\ collected.done =>
          /\ \A k \in 1..Len(collected.regions) :
                /\ IsFinite(collected.regions[k].blurPx)
                /\ collected.regions[k].blurPx.num > 0
          /\ Len(collected.regions) =
                Cardinality({k \in 1..Len(surface.nodes) :
                    /\ Eligible(surface.nodes[k], surface.rect)
                    /\ parseBlurPx(EffectiveBackdrop(surface.nodes[k].style)).num > 0})

\* a pattern without a number was parsed to 0, and a surface holding such an
\* element next to a blurred one gave exactly the blurred one's region
MalformedBlurWitness ==
    /\ filterValue = BlurDot
    /\ parsedBlur = Zero
    /\ collected.done
    /\ Len(surface.nodes) = 2
    /\ surface.nodes[1].style.backdropFilter = BlurDot
    /\ surface.nodes[2].style.backdropFilter = Blur12
    /\ Len(collected.regions) = 1
    /\ collected.regions[1].blurPx = Num(12, 1)

----------------------------------------------------------------------------
\* the blur radius an element declares, by backdrop-filter or its prefixed form
DeclaredBlur(el) ==
    parseBlurPx(IF el.style.backdropFilter # <<>> THEN el.style.backdropFilter
                ELSE el.style.webkitBackdropFilter)

DeclaresBlur(el) == DeclaredBlur(el).num > 0

\* positions of the descendants that declare a blur and survive the skip rules
Survivors(root) ==
    {k \in 1..Len(root.nodes) :
        Eligible(root.nodes[k], root.rect) /\ DeclaresBlur(root.nodes[k])}

\* the n-th of them in document order
NthSurvivor(root, n) ==
    LET S == Survivors(root)
    IN  root.nodes[CHOOSE k \in S : Cardinality({j \in S : j < k}) = n - 1]

\* C11 (as stated): collectBlurRegions returns exactly as many regions as the
\* surface has descendants declaring a blur effect, none with blurPx <= 0.
BlurCompletenessAll ==
    collected.done =>
        /\ Len(collected.regions) =
              Cardinality({k \in 1..Len(surface.nodes) : DeclaresBlur(surface.nodes[k])})
        /\ \A k \in 1..Len(collected.regions) : collected.regions[k].blurPx.num > 0

\* C11 (amended): collectBlurRegions returns one region per descendant that
\* declares a positive blur and is not skipped (a structural container, not
\* displayed, hidden, of opacity 0, of zero size or outside the surface), in
\* document order and with the radius declared; none has blurPx <= 0.
BlurCompleteness ==
    collected.done =>
        /\ Len(collected.regions) = Cardinality(Survivors(surface))
        /\ \A k \in 1..Len(collected.regions) :
              /\ collected.regions[k].blurPx.num > 0
              /\ collected.regions[k].blurPx = DeclaredBlur(NthSurvivor(surface, k))

\* a surface with a hidden blurred element and one blurred by the prefixed
\* property only was collected: the second alone gave a region
BlurCompletenessWitness ==
    /\ collected.done
    /\ Len(surface.nodes) = 2
    /\ surface.nodes[1].style.visibility = "hidden"
    /\ DeclaresBlur(surface.nodes[1])
    /\ surface.nodes[2].style.backdropFilter = <<>>
    /\ Len(collected.regions) = 1
    /\ collected.regions[1].blurPx = Num(4, 1)

\* the intersection of an element's rect with the surface, surface-relative
Intersection(el, rootRect) ==
    LET x0 == Max(0, el.rect.left - rootRect.left)
        y0 == Max(0, el.rect.top - rootRect.top)
        x1 == Min(rootRect.width, el.rect.left - rootRect.left + el.rect.width)
        y1 == Min(rootRect.height, el.rect.top - rootRect.top + el.rect.height)
    IN  [x |-> x0, y |-> y0, width |-> x1 - x0, height |-> y1 - y0]

PartlyOutside(el, rootRect) ==
    \/ el.rect.left < rootRect.left
    \/ el.rect.top < rootRect.top
    \/ el.rect.left + el.rect.width > rootRect.left + rootRect.width
    \/ el.rect.top + el.rect.height > rootRect.top + rootRect.height

\* C12: every collected region lies within the surface with positive width
\* and height; the region of an element (also of one lying partly outside) is
\* its intersection with the surface; each corner radius is the parsed value
\* of that corner's own style property.
RegionsClipped ==
    collected.done =>
        /\ Len(collected.regions) = Cardinality(Survivors(surface))
        /\ \A k \in 1..Len(collected.regions) :
              LET r  == collected.regions[k]
                  el == NthSurvivor(surface, k)
                  i  == Intersection(el, surface.rect)
              IN  /\ r.x >= 0 /\ r.y >= 0 /\ r.width > 0 /\ r.height > 0
                  /\ r.x + r.width <= surface.rect.width
                  /\ r.y + r.height <= surface.rect.height
                  /\ r.x = i.x /\ r.y = i.y /\ r.width = i.width /\ r.height = i.height
                  /\ r.radius.tl = parseRadius(el.style.borderTopLeftRadius)
                  /\ r.radius.tr = parseRadius(el.style.borderTopRightRadius)
                  /\ r.radius.br = parseRadius(el.style.borderBottomRightRadius)
                  /\ r.radius.bl = parseRadius(el.style.borderBottomLeftRadius)

\* an element over the bottom-right corner gave the clipped region, and an
\* element with four different corner radii gave all four
RegionsClippedWitness ==
    /\ collected.done
    /\ Len(surface.nodes) = 2
    /\ PartlyOutside(surface.nodes[1], surface.rect)
    /\ Len(collected.regions) = 2
    /\ collected.regions[1].x = 80 /\ collected.regions[1].y = 60
    /\ collected.regions[1].width = 20 /\ collected.regions[1].height = 20
    /\ collected.regions[2].radius =
          [tl |-> Num(1, 1), tr |-> Num(2, 1), br |-> Num(3, 1), bl |-> Num(4, 1)]

----------------------------------------------------------------------------
Composited == compOutput.ctx.ops # <<>>

NumRegions == Len(compInput.blurRegions)

\* the i-th of the four context calls made for region k
RegionCall(k, i) == compOutput.ctx.ops[4 * (k - 1) + 1 + i]

\* C13: the base raster is drawn first and unclipped; then for each region in
\* turn save, clip to the region's path, one blurred draw under that clip
\* alone, restore; the foreground is drawn last, with no clip active and the
\* save stack empty.
DrawOrder ==
    Composited =>
        LET ops == compOutput.ctx.ops
        IN  /\ Len(ops) = 4 * NumRegions + 2
            /\ ops[1].op = "drawImage" /\ ops[1].kind = "base" /\ ops[1].clip = {}
            /\ \A k \in 1..NumRegions :
                  /\ RegionCall(k, 1).op = "save"
                  /\ RegionCall(k, 2).op = "clip" /\ RegionCall(k, 2).region = k
                  /\ RegionCall(k, 3).op = "drawImage" /\ RegionCall(k, 3).kind = "blurred"
                  /\ \A path \in RegionCall(k, 3).clip : path.region = k
                  /\ Cardinality(RegionCall(k, 3).clip) = 1
                  /\ RegionCall(k, 4).op = "restore" /\ RegionCall(k, 4).clip = {}
            /\ ops[Len(ops)].op = "drawImage" /\ ops[Len(ops)].kind = "foreground"
            /\ ops[Len(ops)].clip = {}
            /\ compOutput.ctx.clip = {} /\ compOutput.ctx.stack = <<>>

\* two regions were blurred and an opaque foreground drawn over them unclipped
DrawOrderWitness ==
    /\ Composited
    /\ NumRegions = 2
    /\ Len(compOutput.ctx.content) = 4
    /\ compOutput.ctx.content[4].kind = "foreground"
    /\ compOutput.ctx.content[4].clip = {}
    /\ compOutput.ctx.content[2].clip # compOutput.ctx.content[3].clip

\* k is Math.round(100 * blurPx * scale) for region i
IsRoundedKey(i, k) ==
    LET r   == compInput.blurRegions[i]
        num == r.blurPx.num * compInput.baseImage.width
        den == r.blurPx.den * Max(1, compInput.rootWidth)
    IN  (2 * k - 1) * den <= 200 * num /\ 200 * num < (2 * k + 1) * den

SameKey(i, j) == \E k \in 0..10000 : IsRoundedKey(i, k) /\ IsRoundedKey(j, k)

\* the scratch canvas region i's blurred patch was drawn from
PatchCanvas(i) == RegionCall(i, 3).id

\* C14: getBlurredCanvas is called once per distinct rounded key among the
\* regions; two regions draw from the same scratch canvas exactly when their
\* rounded scaled radii are equal.
BlurMemoized ==
    Composited =>
        /\ \A i, j \in 1..NumRegions : PatchCanvas(i) = PatchCanvas(j) <=> SameKey(i, j)
        /\ Len(compOutput.scratch) = Cardinality({PatchCanvas(i) : i \in 1..NumRegions})
        /\ \A i \in 1..NumRegions : PatchCanvas(i) \in 1..Len(compOutput.scratch)

\* two regions of different radius but equal rounded scaled radius shared one
\* scratch canvas
BlurMemoizedWitness ==
    /\ Composited
    /\ NumRegions = 2
    /\ compInput.blurRegions[1].blurPx # compInput.blurRegions[2].blurPx
    /\ Len(compOutput.scratch) = 1
    /\ PatchCanvas(1) = 1 /\ PatchCanvas(2) = 1

\* C15: with no blur region there is no blur pass and no clip, the output
\* canvas has the base raster's size, and the draws are the base then the
\* foreground; with a fully transparent foreground the content is the base alone.
CompositorRoundTrip ==
    (Composited /\ NumRegions = 0) =>
        /\ compOutput.scratch = <<>>
        /\ compOutput.ctx.width = compInput.baseImage.width
        /\ compOutput.ctx.height = compInput.baseImage.height
        /\ Len(compOutput.ctx.ops) = 2
        /\ \A i \in 1..2 : compOutput.ctx.ops[i].op = "drawImage" /\ compOutput.ctx.ops[i].clip = {}
        /\ compOutput.ctx.ops[1].kind = "base" /\ compOutput.ctx.ops[2].kind = "foreground"
        /\ compInput.foregroundImage.transparent =>
              compOutput.ctx.content = <<[kind |-> "base", id |-> 0, blurPx |-> Zero, clip |-> {}]>>

\* a base raster larger than the surface was composited with a transparent
\* foreground and no region
CompositorRoundTripWitness ==
    /\ Composited
    /\ NumRegions = 0
    /\ compInput.foregroundImage.transparent
    /\ compInput.baseImage.width > compInput.rootWidth
    /\ Len(compOutput.ctx.content) = 1

----------------------------------------------------------------------------
\* C16: an export leaves the live node as it was, attached to the document
\* with its children and their inline styles unchanged; the prepare mutation
\* reaches only the clone in staging, where it hides by visibility and never
\* sets display.
LiveSurfaceUnchanged ==
    /\ liveNode = TreeOf(ExportSurface)
    /\ \A e \in Exports :
          LET clone == frame[e].clone
          IN  /\ Len(clone.children) \in {0, Len(liveNode.children)}
              /\ \A k \in 1..Len(clone.children) :
                    /\ clone.children[k].component = liveNode.children[k].component
                    /\ clone.children[k].inline.display = liveNode.children[k].inline.display
                    /\ clone.children[k].inline.visibility \in {"", "hidden"}

\* an export has its foreground clone in staging, prepared: grid lines hidden,
\* the event block's backdrop filter removed, the event block itself visible
LiveSurfaceWitness ==
    \E e \in Exports :
        LET clone == frame[e].clone
        IN  /\ frame[e].baseImage
            /\ clone.parent = "staging"
            /\ \E k \in 1..Len(clone.children) :
                  /\ clone.children[k].component = "GridLines"
                  /\ clone.children[k].inline.visibility = "hidden"
            /\ \E k \in 1..Len(clone.children) :
                  /\ clone.children[k].component = "EventBlock"
                  /\ clone.children[k].inline.visibility = ""
                  /\ clone.children[k].inline.backdropFilter = "none"

----------------------------------------------------------------------------
ClonesOf(e) == {c \in stagingChildren : c[1] = e}

\* C4: whenever downloadCalendarExport has returned or rejected, no clone of
\* that export is left attached to the staging container.
StagingCleanOnReturn ==
    \A e \in Exports : frame[e].result # "pending" => ClonesOf(e) = {}

StepOrder ==
    <<"fonts", "fontCSS", "collect", "base", "foreground", "composite", "encode", "download">>

IsPrefix(s, t) == Len(s) <= Len(t) /\ \A i \in 1..Len(s) : s[i] = t[i]

\* C5: within one export the steps are taken in the order wait for fonts,
\* font CSS, collect, capture base, capture foreground, composite, encode,
\* download, none skipped but the font wait where document.fonts is missing;
\* the foreground clone is attached only when the base clone has been removed
\* and the base raster has resolved.
PipelineOrdered ==
    \A e \in Exports :
        /\ IsPrefix(frame[e].log, IF hasFontsApi THEN StepOrder ELSE Tail(StepOrder))
        /\ <<e, "foreground">> \in stagingChildren =>
              /\ <<e, "base">> \notin stagingChildren
              /\ frame[e].baseImage

\* the foreground clone of an export is in staging, after its base capture
PipelineWitness ==
    \E e \in Exports :
        /\ <<e, "foreground">> \in stagingChildren
        /\ frame[e].baseImage
        /\ frame[e].log = <<"fonts", "fontCSS", "collect", "base", "foreground">>

\* C6: across non-overlapping successful exports exactly one staging root is
\* created, by the first export that reaches a capture and not before, it is
\* reused afterwards, and it never holds more than one clone.
StagingSingleton ==
    /\ bodyStagingRoots <= 1
    /\ stagingRoot <=> bodyStagingRoots = 1
    /\ bodyStagingRoots = 1 <=> \E e \in Exports, i \in 1..8 :
                                   i <= Len(frame[e].log) /\ frame[e].log[i] = "base"
    /\ Cardinality(stagingChildren) <= 1

\* a later export captures in the staging root the first export created
StagingReuseWitness ==
    /\ pc[1] = "done"
    /\ frame[1].downloads = 1
    /\ \E e \in Exports : e > 1 /\ stagingChildren = {<<e, "foreground">>}
    /\ bodyStagingRoots = 1

\* the clone of a running capture is attached (between lines 246 and 260)
InCaptureWindow(e) == pc[e] \in {"images", "toPng"}

\* C7: while a capture's clone is attached, no other export attaches a clone:
\* the capture windows of two exports never overlap, the staging container
\* never holds the clones of two running captures.
SingleMutator ==
    \A e1, e2 \in Exports :
        e1 # e2 => ~(InCaptureWindow(e1) /\ InCaptureWindow(e2))

\* C8: with no surface node the export returns before any step; with no 2D
\* context or a null blob it returns without a download; a download happens
\* at most once per export and only with node, context and blob obtained.
MissingTargetSilent ==
    /\ \A e \in Exports :
          LET f == frame[e]
          IN  /\ f.node = "null" =>
                    f.log = <<>> /\ f.result = "resolved" /\ f.downloads = 0 /\ ClonesOf(e) = {}
              /\ f.ctx = "null" => f.result = "resolved" /\ f.downloads = 0
              /\ f.blob = "null" => f.result = "resolved" /\ f.downloads = 0
              /\ f.downloads <= 1
              /\ f.downloads = 1 => f.node = "element" /\ f.ctx = "ok" /\ f.blob = "ok"
    /\ (\A e \in Exports : frame[e].node \in {"unset", "null"}) =>
          ~stagingRoot /\ fontCSSCache = "null"

\* one export returned at once for want of a node, another went through both
\* captures and returned without a download for want of a blob
MissingTargetWitness ==
    \E e1, e2 \in Exports :
        /\ frame[e1].node = "null" /\ pc[e1] = "done"
        /\ frame[e2].blob = "null" /\ frame[e2].foregroundImage /\ pc[e2] = "done"
        /\ frame[e2].downloads = 0

\* C9: whatever the load state of the imgs of a clone, waitForImages
\* eventually resolves.
ImagesEventuallyResolve ==
    \A e \in Exports : (pc[e] = "images") ~> (pc[e] # "images")

----------------------------------------------------------------------------
(* Content-driven sizing *)

\* the row height an instance has computed
HourHeightIn(i) == canvases[i].hourHeight.value

\* the rendered height of an entry's block: its aligned duration times the
\* row height
BlockHeight(ev, hh) == RatMul(AsRat(DurationHalves(ev)), AsRat(hh))

\* the block of an entry is at least as high as its estimated content
Fits(ev, hh) ==
    /\ IsFinite(hh)
    /\ IsFinite(DurationHalves(ev))
    /\ RatLeq(calculateMinEventHeight(ev, template, FALSE), BlockHeight(ev, hh))

\* C17 as stated: for every entry list and template, every entry's block
\* height is at least its calculateMinEventHeight (here only asked of lists
\* whose times all parse, where the row height is a number).
NoEntryClipsAlways ==
    \A i \in Instances, k \in 1..Len(events) :
        IsFinite(HourHeightIn(i)) => Fits(events[k], HourHeightIn(i))

\* C17: when the computed row height is a number below the 200 px cap, every
\* entry's block height (half-hour-aligned duration floored at half an hour,
\* times the row height) is at least its calculateMinEventHeight; at the cap
\* the row height is exactly 200.
NoEntryClips ==
    \A i \in Instances :
        IsFinite(HourHeightIn(i)) =>
            /\ RatLeq(AsRat(HourHeightIn(i)), RatInt(maxHourHeight))
            /\ AsRat(HourHeightIn(i)) # RatInt(maxHourHeight) =>
                  \A k \in 1..Len(events) : Fits(events[k], HourHeightIn(i))

\* a half-hour entry has pushed the row height above the base and it stays
\* under the cap
NoEntryClipsWitness ==
    /\ \E k \in 1..Len(events) : DurationHalves(events[k]) = Num(1, 2)
    /\ \A i \in Instances :
          /\ IsFinite(HourHeightIn(i))
          /\ ~RatLeq(AsRat(HourHeightIn(i)), RatInt(baseHourHeight))
          /\ ~RatLeq(RatInt(maxHourHeight), AsRat(HourHeightIn(i)))

\* C18: with no entries every instance has the default hour window (8 hours
\* on, 10 rows), the base row height, the absolute minimum column width and
\* five day columns, so numDays >= 1, hourRange >= 1, both minimums are
\* positive and the solved grid is not degenerate.
EmptyGridDefaults ==
    events = <<>> =>
        \A i \in Instances :
            LET c == canvases[i]
            IN  /\ c.visibleDays.value = 5
                /\ c.window.value = [startHour |-> 8, hourRange |-> 10]
                /\ c.hourHeight.value = Num(baseHourHeight, 1)
                /\ c.minBlockWidth.value = RatInt(ABSOLUTE_MIN_BLOCK_WIDTH)
                /\ c.visibleDays.value >= 1 /\ c.window.value.hourRange >= 1
                /\ baseHourHeight > 0 /\ ABSOLUTE_MIN_BLOCK_WIDTH > 0
                /\ c.canvasDimensions.value.gridWidth >= 5 * ABSOLUTE_MIN_BLOCK_WIDTH * Scale
                /\ c.canvasDimensions.value.gridHeight >= 10 * baseHourHeight * Scale

\* the list is empty and both instances have rendered a portrait canvas
EmptyGridWitness ==
    /\ events = <<>>
    /\ template.aspectRatio = SliderSteps
    /\ \A i \in Instances :
          /\ canvases[i].canvasDimensions.deps # <<>>
          /\ canvases[i].canvasDimensions.value.height > canvases[i].canvasDimensions.value.width

\* the dimensions a first render with the current props computes
FreshDimensions ==
    SolveDimensions(VisibleDayCount(events), HourWindow(events).hourRange,
                    HourHeightOf(events, template, FALSE), template.aspectRatio,
                    calculateMinBlockWidth(events, template, FALSE))

\* C19: the layout functions have no hidden state: whatever an instance has
\* rendered before, its dimensions are those a first render with the same
\* events and template computes, so the visible and the hidden export canvas
\* have identical dimensions.
LayoutDeterministic ==
    /\ \A i \in Instances : canvases[i].canvasDimensions.value = FreshDimensions
    /\ canvases["visible"].canvasDimensions = canvases["hidden"].canvasDimensions
    /\ canvases["visible"].hourHeight.value = canvases["hidden"].hourHeight.value
    /\ canvases["visible"].minBlockWidth.value = canvases["hidden"].minBlockWidth.value

\* the visible canvas has been mounted anew while the hidden one kept its
\* memo cells, and the entries have since set the column width
LayoutDeterministicWitness ==
    /\ canvases["visible"].remounted
    /\ ~canvases["hidden"].remounted
    /\ Len(events) = MaxEvents
    /\ ~RatLeq(canvases["hidden"].minBlockWidth.value, RatInt(ABSOLUTE_MIN_BLOCK_WIDTH))

\* the row height of lines 967-995 recomputed from the entries
RowHeightFormula(evs) ==
    LET Required(k) == RatDiv(calculateMinEventHeight(evs[k], template, FALSE),
                              AsRat(DurationHalves(evs[k])))
        Bounded(k)  == RatMax(RatInt(baseHourHeight), RatMin(RatInt(maxHourHeight), Required(k)))
    IN  CHOOSE h \in {Bounded(k) : k \in 1..Len(evs)} :
            \A k \in 1..Len(evs) : RatLeq(Bounded(k), h)

\* C20: with entries, the row height is max(60, min(200, max over entries of
\* minH / d)) with d = max(0.5, roundHalf(end) - roundHalf(start)): a number
\* in [60, 200], the divisor never zero or negative.
RowHeightBounded ==
    events # <<>> =>
        \A i \in Instances :
            /\ \A k \in 1..Len(events) :
                  /\ IsFinite(DurationHalves(events[k]))
                  /\ DurationHalves(events[k]).num >= 1
            /\ IsFinite(HourHeightIn(i))
            /\ RatLeq(RatInt(baseHourHeight), AsRat(HourHeightIn(i)))
            /\ RatLeq(AsRat(HourHeightIn(i)), RatInt(maxHourHeight))
            /\ AsRat(HourHeightIn(i)) = RowHeightFormula(events)

\* the width a field of chars characters needs on two lines
TwoLineWidth(chars, fontSize) == Rat(chars * fontSize * 11, 40)

\* the largest fraction of a non-empty set
Widest(S) == CHOOSE m \in S : \A x \in S : RatLeq(x, m)

\* notes are shown for this entry
NotesShown(ev) ==
    /\ ~template.compact
    /\ ev.notesLen > 0
    /\ IF ev.includeNotes = "unset" THEN template.showNotes ELSE ev.includeNotes = "true"

\* the two-line widths of every text field an entry shows: title, class type,
\* time ("HH:MM - HH:MM"), location and notes
EveryFieldWidth(ev) ==
    {TwoLineWidth(ev.displayTitleLen, template.titleFontSize)}
    \cup (IF template.showClassType
          THEN {TwoLineWidth(ev.classTypeLen, template.detailsFontSize)} ELSE {})
    \cup (IF template.showTime /\ ~template.compact
          THEN {TwoLineWidth(13, template.detailsFontSize)} ELSE {})
    \cup (IF template.showLocation /\ ev.locationLen > 0 /\ ~template.compact
          THEN {TwoLineWidth(ev.locationLen, template.detailsFontSize)} ELSE {})
    \cup (IF NotesShown(ev)
          THEN {TwoLineWidth(ev.notesLen, template.detailsFontSize)} ELSE {})

\* the widths of the fields that constrain the column: title, class type when
\* shown, and location when shown, with 14 px for its icon
CountedFieldWidth(ev) ==
    {TwoLineWidth(ev.displayTitleLen, template.titleFontSize)}
    \cup (IF template.showClassType
          THEN {TwoLineWidth(ev.classTypeLen, template.detailsFontSize)} ELSE {})
    \cup (IF template.showLocation /\ ev.locationLen > 0 /\ ~template.compact
          THEN {RatAdd(TwoLineWidth(ev.locationLen, template.detailsFontSize), RatInt(14))}
          ELSE {})

\* the floor and, per entry and field of Fields(entry), the width plus padding
ColumnWidthOver(Fields(_)) ==
    Widest({RatInt(ABSOLUTE_MIN_BLOCK_WIDTH)}
           \cup {RatAdd(w, RatInt(EVENT_BLOCK_PADDING)) :
                   w \in UNION {Fields(events[k]) : k \in 1..Len(events)}})

\* every instance's column width is ColumnWidthOver(Fields) and its grid is at
\* least numDays columns of that width wide
ColumnWidthIs(Fields(_)) ==
    \A i \in Instances :
        /\ canvases[i].minBlockWidth.value = ColumnWidthOver(Fields)
        /\ canvases[i].canvasDimensions.value.gridWidth >=
              MinGridWidth(canvases[i].visibleDays.value,
                           ToFx(canvases[i].minBlockWidth.value))

----------------------------------------------------------------------------
(* The solver as CalendarCanvas calls it *)

\* the natural canvas size of an instance whose row height is a number
NaturalWidthIn(i) ==
    NaturalCanvasWidth(canvases[i].visibleDays.value, ToFx(canvases[i].minBlockWidth.value))
NaturalHeightIn(i) ==
    NaturalCanvasHeight(canvases[i].window.value.hourRange, ToFx(AsRat(HourHeightIn(i))))

\* the target ratio is wider than the natural ratio of instance i
TargetWider(i) ==
    /\ IsFinite(HourHeightIn(i))
    /\ TargetRatio(template.aspectRatio).num * NaturalHeightIn(i) >
          NaturalWidthIn(i) * TargetRatio(template.aspectRatio).den

\* |width / height - r| <= 0.01
RatioWithinHundredth(width, height, r) ==
    100 * Abs(width * r.den - height * r.num) <= height * r.den

\* C22: targetRatio = 16/9 + (9/16 - 16/9) * slider: 16:9 at slider 0, 9:16 at
\* slider 1, strictly decreasing in between; when the target is wider than the
\* natural ratio the height stays natural and width = naturalCanvasHeight *
\* targetRatio, so with 5 columns, 10 hours and slider 0 the output ratio is
\* 16:9 within 0.01.
TargetInterpolation ==
    /\ TargetRatio(0) = Rat(16, 9)
    /\ TargetRatio(SliderSteps) = Rat(9, 16)
    /\ \A k \in 0..SliderSteps :
          TargetRatio(k) = Rat(256 * SliderSteps - 175 * k, 144 * SliderSteps)
    /\ \A k \in 0..(SliderSteps - 1) :
          /\ RatLeq(TargetRatio(k + 1), TargetRatio(k))
          /\ TargetRatio(k + 1) # TargetRatio(k)
    /\ \A i \in Instances :
          TargetWider(i) =>
              LET d == canvases[i].canvasDimensions.value
              IN  /\ d.height = NaturalHeightIn(i)
                  /\ d.width = MulRat(NaturalHeightIn(i), TargetRatio(template.aspectRatio))
                  /\ RatioWithinHundredth(d.width, d.height, TargetRatio(template.aspectRatio))
    /\ (events = <<>> /\ template.aspectRatio = 0) =>
          \A i \in Instances :
              /\ TargetWider(i)
              /\ RatioWithinHundredth(canvases[i].canvasDimensions.value.width,
                                      canvases[i].canvasDimensions.value.height, Rat(16, 9))

\* the empty calendar (5 columns, 10 hours) at slider 0 has been widened
TargetInterpolationWitness ==
    /\ events = <<>>
    /\ template.aspectRatio = 0
    /\ \A i \in Instances :
          /\ canvases[i].visibleDays.value = 5
          /\ canvases[i].window.value.hourRange = 10
          /\ canvases[i].canvasDimensions.value.width > NaturalWidthIn(i)
          /\ canvases[i].canvasDimensions.value.height = NaturalHeightIn(i)

----------------------------------------------------------------------------
(* The solver on its own inputs *)

\* the target is narrower than the natural ratio and the width that reaches
\* it lies under the floor (lines 792-796, 817)
BelowFloor ==
    LET t    == TargetRatio(aspectRatioSlider)
        natW == NaturalCanvasWidth(numDays, minBlockWidth)
        natH == NaturalCanvasHeight(hourRange, contentBasedHourHeight)
    IN  /\ t.num * natH < natW * t.den
        /\ MulRat(natH, t) < MinCanvasWidth(numDays, minBlockWidth)

\* C23: when the target ratio is narrower than the natural ratio and
\* naturalCanvasHeight * targetRatio < minCanvasWidth, the returned width is
\* minCanvasWidth exactly and the returned height is strictly greater than
\* naturalCanvasHeight.
FloorBranchHolds ==
    BelowFloor =>
        /\ canvasDimensions.width = MinCanvasWidth(numDays, minBlockWidth)
        /\ canvasDimensions.height > NaturalCanvasHeight(hourRange, contentBasedHourHeight)

\* a portrait target on a text-driven floor wider than the 120 px baseline
FloorBranchWitness ==
    /\ BelowFloor
    /\ aspectRatioSlider = SliderSteps
    /\ minBlockWidth > 120 * Scale
    /\ canvasDimensions.width = MinCanvasWidth(numDays, minBlockWidth)
    /\ canvasDimensions.height > NaturalCanvasHeight(hourRange, contentBasedHourHeight)

\* C27: in every branch the returned width / height equals the target ratio
\* up to rounding (within one fixed-point unit), the floor branch and the
\* case targetRatio = natural ratio included.
OutputRatioIsTarget ==
    LET t == TargetRatio(aspectRatioSlider)
    IN  Abs(canvasDimensions.width * t.den - canvasDimensions.height * t.num)
            < Max(t.num, t.den)

\* the floor branch returned the target ratio with the width at the floor
OutputRatioWitness ==
    /\ BelowFloor
    /\ canvasDimensions.width = MinCanvasWidth(numDays, minBlockWidth)
    /\ canvasDimensions.height =
          DivRat(MinCanvasWidth(numDays, minBlockWidth), TargetRatio(aspectRatioSlider))
    /\ aspectRatioSlider \notin {0, SliderSteps}

----------------------------------------------------------------------------
(* The height estimate as a function of the entry and the template *)

\* the template with its four visibility toggles and compact set
WithToggles(classType, time, location, notes, compact) ==
    [template EXCEPT !.showClassType = classType, !.showTime = time,
                     !.showLocation = location, !.showNotes = notes, !.compact = compact]

\* n detail lines of the template tpl plus an allowance
DetailLines(tpl, n, allowance) ==
    RatAdd(RatMul(RatMul(RatInt(tpl.detailsFontSize), lineHeight), RatInt(n)),
           RatInt(allowance))

\* the estimate written out field by field
EstimateByField(ev, tpl) ==
    LET lines == IF ev.displayTitleLen > 12 THEN 2
                 ELSE IF ev.displayTitleLen > 0 THEN 1 ELSE 0
        notesIncluded == IF ev.includeNotes = "unset" THEN tpl.showNotes
                         ELSE ev.includeNotes = "true"
        Part1 == RatAdd(RatInt(16),
                        RatMul(RatMul(RatInt(tpl.titleFontSize), lineHeight), RatInt(lines)))
        Part2 == IF tpl.showClassType THEN DetailLines(tpl, 1, 4) ELSE RatInt(0)
        Part3 == IF ~tpl.compact /\ tpl.showTime THEN DetailLines(tpl, 1, 2) ELSE RatInt(0)
        Part4 == IF ~tpl.compact /\ tpl.showLocation /\ ev.locationLen > 0
                 THEN DetailLines(tpl, 1, 2) ELSE RatInt(0)
        Part5 == IF ~tpl.compact /\ notesIncluded /\ ev.notesLen > 0
                 THEN DetailLines(tpl, 2, 8) ELSE RatInt(0)
    IN  RatAdd(RatAdd(Part1, Part2), RatAdd(Part3, RatAdd(Part4, Part5)))

\* C24: calculateMinEventHeight is 16 + titleFontSize * 1.4 * min(ceil(len /
\* 12), 2) + a detail line for the class type if shown + (not compact only) a
\* detail line each for time if shown and location if shown and present + two
\* detail lines and an allowance for notes if included and present; a longer
\* title never adds a third line, switching a toggle on never lowers the
\* result, and compact leaves time, location and notes out.
MinEventHeightFormula ==
    \A k \in 1..Len(events), c, t, l, n, compact \in BOOLEAN :
        LET ev  == events[k]
            tpl == WithToggles(c, t, l, n, compact)
            h   == calculateMinEventHeight(ev, tpl, FALSE)
        IN  /\ h = EstimateByField(ev, tpl)
            /\ \A more \in {25, 100, 1000} :
                  RatLeq(calculateMinEventHeight([ev EXCEPT !.displayTitleLen = more], tpl, FALSE),
                         RatAdd(EstimateByField([ev EXCEPT !.displayTitleLen = 0], tpl),
                                RatMul(RatMul(RatInt(tpl.titleFontSize), lineHeight), RatInt(2))))
            /\ RatLeq(calculateMinEventHeight(ev, WithToggles(FALSE, t, l, n, compact), FALSE), h)
                  \/ ~c
            /\ RatLeq(calculateMinEventHeight(ev, WithToggles(c, FALSE, l, n, compact), FALSE), h)
                  \/ ~t
            /\ RatLeq(calculateMinEventHeight(ev, WithToggles(c, t, FALSE, n, compact), FALSE), h)
                  \/ ~l
            /\ RatLeq(calculateMinEventHeight(ev, WithToggles(c, t, l, FALSE, compact), FALSE), h)
                  \/ ~n
            /\ compact =>
                  h = calculateMinEventHeight(ev, WithToggles(c, FALSE, FALSE, FALSE, TRUE), FALSE)

\* the list holds an entry whose title needs more than two lines and one with
\* location and notes, under a compact template
MinEventHeightWitness ==
    /\ template.compact
    /\ \E k \in 1..Len(events) : events[k].displayTitleLen > 24
    /\ \E k \in 1..Len(events) :
          /\ events[k].locationLen > 0 /\ events[k].notesLen > 0
          /\ events[k].includeNotes = "true"
          /\ calculateMinEventHeight(events[k], template, FALSE) =
                EstimateByField([events[k] EXCEPT !.locationLen = 0, !.notesLen = 0],
                                WithToggles(TRUE, FALSE, FALSE, FALSE, FALSE))

----------------------------------------------------------------------------
(* The collector as a filter *)

\* the surface without its k-th descendant
WithoutNode(root, k) ==
    [root EXCEPT !.nodes = SubSeq(root.nodes, 1, k - 1) \o SubSeq(root.nodes, k + 1, Len(root.nodes))]

\* the descendant is rendered, blurred and overlaps the surface
Selected(el, rootRect) ==
    /\ el.component \notin {"CalendarCard", "BackgroundContainer"}
    /\ el.style.display # "none"
    /\ el.style.visibility # "hidden"
    /\ ~EqZero(parseFloat(el.style.opacity))
    /\ DeclaredBlur(el).num > 0
    /\ Intersection(el, rootRect).width > 0
    /\ Intersection(el, rootRect).height > 0

\* C25: collectBlurRegions returns one region for exactly the descendants
\* that are no CalendarCard or BackgroundContainer, are displayed, not hidden,
\* of opacity other than 0, of parsed backdrop blur > 0 and of non-empty
\* intersection with the surface: a descendant of this kind accounts for one
\* region, any other (a structural container too) for none, whatever follows
\* it in document order; the root itself never yields a region.
CollectorFilter ==
    collected.done =>
        /\ Len(collected.regions) =
              Cardinality({k \in 1..Len(surface.nodes) : Selected(surface.nodes[k], surface.rect)})
        /\ \A k \in 1..Len(surface.nodes) :
              LET rest == collectBlurRegions(WithoutNode(surface, k))
              IN  IF Selected(surface.nodes[k], surface.rect)
                  THEN Len(rest) = Len(collected.regions) - 1
                  ELSE rest = collected.regions
        /\ collected.regions =
              collectBlurRegions([surface EXCEPT !.self = RootElement(<<>>)])

\* a blurred root holding a blurred card followed by a blurred event block
\* gave the event block's region only
CollectorFilterWitness ==
    /\ collected.done
    /\ DeclaredBlur(surface.self).num > 0
    /\ Len(surface.nodes) = 2
    /\ surface.nodes[1].component = "CalendarCard"
    /\ DeclaredBlur(surface.nodes[1]).num > 0
    /\ Selected(surface.nodes[2], surface.rect)
    /\ Len(collected.regions) = 1
    /\ collected.regions[1].blurPx = DeclaredBlur(surface.nodes[2])

----------------------------------------------------------------------------
(* The font payload cache *)

\* the export has passed lines 321-323
PastFontCSS(e) ==
    /\ \E i \in 1..Len(frame[e].log) : frame[e].log[i] = "fontCSS"
    /\ pc[e] # "fontCSS"

\* no export before e found its surface node
FirstWithNode(e) ==
    /\ frame[e].node = "element"
    /\ \A d \in Exports : d < e => frame[d].node # "element"

\* C26: across non-overlapping exports fetchFontEmbedCSS is called by the
\* first export that finds its node and by no later one; fontCSSCache, once
\* not null, never changes, also when it holds the '' of a failed fetch; and
\* an export whose font payload is '' returns without a download only for
\* want of a 2D context or a blob.
FontCacheLifecycle ==
    /\ [](\A e \in Exports :
            /\ frame[e].fetches <= 1
            /\ frame[e].fetches = 1 => FirstWithNode(e)
            /\ (FirstWithNode(e) /\ PastFontCSS(e)) =>
                  frame[e].fetches = 1 /\ fontCSSCache # "null"
            /\ (fontCSSCache = "" /\ PastFontCSS(e) /\ frame[e].result = "resolved") =>
                  \/ frame[e].downloads = 1
                  \/ frame[e].ctx = "null"
                  \/ frame[e].blob = "null")
    /\ [][fontCSSCache # "null" => fontCSSCache' = fontCSSCache]_vars

\* the first fetch failed, '' is cached, and a later export has downloaded
\* its image without fetching again
FontCacheWitness ==
    /\ fontCSSCache = ""
    /\ \E e1, e2 \in Exports :
          /\ e1 < e2
          /\ frame[e1].fetches = 1 /\ pc[e1] = "done"
          /\ frame[e2].fetches = 0 /\ frame[e2].downloads = 1
          /\ frame[e2].baseImage /\ frame[e2].foregroundImage
          /\ frame[e2].canvas # NotComposited

----------------------------------------------------------------------------
(* The hour window and the placement of blocks *)

\* the hour of an HH:MM time lies in 0..23
HourInDay(time) ==
    /\ Len(time) = 5
    /\ IsFinite(ToNumber(Part(SplitColon(time), 1)))
    /\ ToNumber(Part(SplitColon(time), 1)).num \in 0..23

HoursInDay(evs) ==
    \A k \in 1..Len(evs) : HourInDay(evs[k].startTime) /\ HourInDay(evs[k].endTime)

\* hourRange >= 4, startHour >= 0 and startHour + hourRange <= 24
WindowBounded(w) ==
    /\ w.hourRange >= 4
    /\ w.startHour >= 0
    /\ w.startHour + w.hourRange <= 24

\* evs with its first entry moved to h1:00 - h2:30
Retimed(evs, h1, h2) ==
    [evs EXCEPT ![1].startTime = Time(h1 \div 10, h1 % 10, 0, 0),
                ![1].endTime = Time(h2 \div 10, h2 % 10, 3, 0)]

\* C28: for every non-empty entry list whose start and end hours lie in
\* 0..23, also with an end before its start, the window each canvas holds has
\* hourRange >= 4, startHour >= 0 and startHour + hourRange <= 24 (so the
\* solver is called with hourRange >= 1); the same holds for a single entry
\* moved to any pair of hours of the day.
HourWindowBounded ==
    (events # <<>> /\ HoursInDay(events)) =>
        /\ \A i \in Instances :
              /\ canvases[i].window.deps = <<events>>
              /\ WindowBounded(canvases[i].window.value)
              /\ canvases[i].canvasDimensions.deps[3] >= 1
        /\ Len(events) = 1 =>
              \A h1, h2 \in 0..23 : WindowBounded(HourWindow(Retimed(events, h1, h2)))

\* the entry at the end of the day alone: the window is stretched downwards
\* from 24
HourWindowWitness ==
    /\ Len(events) = 1
    /\ HoursInDay(events)
    /\ ToNumber(Part(SplitColon(events[1].startTime), 1)).num > 20
    /\ \A i \in Instances : canvases[i].window.value = [startHour |-> 20, hourRange |-> 4]

\* lines 1650-1662: topPercent and heightPercent of an entry's block in the
\* window w, for an entry whose times parse
EventBlock(event, w) ==
    CHOOSE b \in {LET alignedStart == roundToNearestHalfHour(startVal)
                      alignedEnd == roundToNearestHalfHour(endVal)
                      alignedDuration == Max(1, alignedEnd - alignedStart)
                  IN  [alignedStart    |-> alignedStart,
                       alignedDuration |-> alignedDuration,
                       topPercent      |-> Rat((alignedStart - 2 * w.startHour) * 50, w.hourRange),
                       heightPercent   |-> Rat(alignedDuration * 50, w.hourRange)] :
                     startVal \in {TimeValue(event.startTime)},
                     endVal \in {TimeValue(event.endTime)}} : TRUE

\* an HH:MM time in 00:00..23:59
TimeOfDay(time) ==
    /\ HourInDay(time)
    /\ IsFinite(ToNumber(Part(SplitColon(time), 2)))
    /\ ToNumber(Part(SplitColon(time), 2)).num \in 0..59

\* every entry has times of the day with start <= end
StartsBeforeEnds(evs) ==
    \A k \in 1..Len(evs) :
        /\ TimeOfDay(evs[k].startTime) /\ TimeOfDay(evs[k].endTime)
        /\ RatLeq(AsRat(TimeValue(evs[k].startTime)), AsRat(TimeValue(evs[k].endTime)))

\* C29: for every entry list with start <= end and times in 00:00..23:59,
\* every block lies inside the grid: its aligned start is >= startHour, its
\* aligned start plus its duration (at least half an hour) is <=
\* startHour + hourRange, so topPercent >= 0 and
\* topPercent + heightPercent <= 100, also for an entry shorter than 15
\* minutes at the end of the window.
BlocksInsideGrid ==
    StartsBeforeEnds(events) =>
        \A i \in Instances : \A k \in 1..Len(events) :
            LET w == canvases[i].window.value
                b == EventBlock(events[k], w)
            IN  /\ b.alignedStart >= 2 * w.startHour
                /\ b.alignedStart + b.alignedDuration <= 2 * (w.startHour + w.hourRange)
                /\ RatLeq(RatInt(0), b.topPercent)
                /\ RatLeq(RatAdd(b.topPercent, b.heightPercent), RatInt(100))

----------------------------------------------------------------------------
(* The exporting flag *)

\* C30: once downloadCalendarExport has settled for a click, by returning
\* (after a download or silently) or by the rejection of an awaited step,
\* isExporting eventually is false again and the Download button is enabled.
ExportingReturnsToIdle ==
    \A e \in Exports : (pc[e] = "resume") ~> (~isExporting /\ ~buttonDisabled)

====
